---- MODULE Spec2Model ----
(***************************************************************************)
(* The agent run loop of ralphsweagent (agents/enhancements.py) driving    *)
(* the LiteLLM model client (models/litellm_model.py).                     *)
(*                                                                         *)
(* One agent object with one model client.  run() is a sequential program; *)
(* pc is its position.  Costs are integers (one unit = the smallest cost   *)
(* the calculator reports).  Timestamps and the raw response dump carried  *)
(* in a message's extra are left out: no step reads them.                  *)
(***************************************************************************)
EXTENDS Integers, Sequences, FiniteSets, TLC

VARIABLES
    config,          \* AgentConfig + LitellmModelConfig + the kwargs given to the client
    pc,              \* position of run()
    runs,            \* number of run() calls started on the agent
    messages,        \* DefaultAgent.messages, the history
    n_calls,         \* DefaultAgent.n_calls
    cost,            \* DefaultAgent.cost
    exc,             \* the exception in flight inside run(), or NoException
    result,          \* what run() returned, or NotReturned
    n_steps,         \* iterations of the run loop begun in this run
    n_saves,         \* save(output_path) calls made in this run
    saved,           \* the history last written by save(output_path)
    global_cost,     \* GLOBAL_MODEL_STATS cost
    q,               \* locals of the LitellmModel.query call in progress
    side_effect,     \* the tool-call payload the backend attaches to its next response
    n_returned,      \* model queries that returned a message to the agent
    n_raised,        \* model queries that raised
    cost_returned,   \* sum of the costs of the returned messages
    format_errors,   \* FormatErrors raised by model.query in this run
    resolved,        \* what lookup_context_window finds for the model name (0: None)
    context_window_max,      \* DefaultAgent.context_window_max (0: None)
    _live_trajectory_path,   \* whether a live JSONL destination is set
    live,            \* the lines of the live trajectory file
    sent,            \* the messages handed to the latest litellm call
    stream_state,    \* locals of a _reconstruct_stream_response call
    live_exists,     \* whether the live trajectory file exists
    warnings,        \* logger.warning calls about the live trajectory file
    context_left_percent,    \* DefaultAgent.context_left_percent (-1: None)
    n_loads,         \* load_context_window_map calls made in this run
    instance,        \* locals of the caller that drives the agent
    traj,            \* the final trajectory document the caller saves
    preds,           \* the caller's entry in the prediction ledger preds.json
    progress,        \* what the progress manager was told about the instance
    normalization,   \* a model name, its normalized form and that form normalized again
    linking,         \* the response ids the response-protocol client got and passed on
    live_map,        \* the live context-window map file of the config directory
    map_call         \* locals of the calls into models/context_window.py

vars == <<config, pc, runs, messages, n_calls, cost, exc, result, n_steps, n_saves,
          saved, global_cost, q, side_effect, n_returned, n_raised, cost_returned,
          format_errors, resolved, context_window_max, _live_trajectory_path, live,
          sent, stream_state, live_exists, warnings, context_left_percent, n_loads,
          instance, traj, preds, progress, normalization, linking, live_map,
          map_call>>

----
(* Bounds *)

\* n_calls at which the model stops exploring further queries
MaxCalls == 2
\* backend attempts of the retry policy per query
MaxAttempts == 2
\* run() calls on the agent object
MaxRuns == 2

----
(* Inputs *)

StepLimits == {0, 1, 2}
CostLimits == {0, 2}
ToolPayloads == {"none", "valid"}
NoUsage == [present |-> FALSE, prompt_tokens |-> 0, completion_tokens |-> 0]
Usages == {NoUsage} \cup
          [present : {TRUE}, prompt_tokens : {-1, 3}, completion_tokens : {0, 2}]
\* what litellm.cost_calculator.completion_cost does: raise, or return a number
CostOutcomes == {[raises |-> TRUE, value |-> 0]} \cup
                [raises : {FALSE}, value : {-1, 0, 1}]
BackendFailures == {"transient", "abort", "KeyboardInterrupt"}

----
(* Messages *)

NoExtra == [kind |-> "absent", exit_status |-> "", submission |-> "",
            cost |-> 0, actions |-> 0, parse_error |-> FALSE]

Message(role, content, tool_calls, extra) ==
    [role |-> role, content |-> content, tool_calls |-> tool_calls, extra |-> extra]

ExitExtra(status, submission) ==
    [NoExtra EXCEPT !.kind = "exit", !.exit_status = status, !.submission = submission]

NoException == [type |-> "none", messages |-> <<>>]
NotReturned == [NoExtra EXCEPT !.kind = "not_returned"]

NoResponse == [tools |-> "none", usage |-> NoUsage, call |-> 0]

\* the locals of a model.query call: the attempt of the retry policy, the backend
\* calls made so far, the response in hand, the cost bookkeeping (how often and on
\* which call's response the calculator ran, what it did, the cost recorded, the
\* process-wide counter at entry) and the outcome
NoQuery == [attempt |-> 0, calls |-> <<>>, response |-> NoResponse,
            cost_calcs |-> 0, cost_of |-> 0, cost_output |-> 0, parsed |-> 0,
            calc |-> [raises |-> FALSE, value |-> 0], global_before |-> 0,
            outcome |-> "none", message |-> Message("", "", "none", NoExtra),
            raised |-> <<>>, history_before |-> <<>>, failure |-> "none"]

Last(s) == s[Len(s)]

\* no stream reconstruction in progress
NoStream == [pc |-> "none"]

\* minisweagent.exceptions: the exceptions that carry messages for the history
InterruptAgentFlow == {"LimitsExceeded", "FormatError", "Submitted"}
\* KeyboardInterrupt is a BaseException; every other failure is an Exception
BaseExceptions == {"KeyboardInterrupt"}

----
(* Configuration and construction *)

LitellmConfigs ==
    [cost_tracking : {"default", "ignore_errors"},
     use_streaming : BOOLEAN,
     stream_include_usage : BOOLEAN,
     tool_choice : {"unset", "required"},
     retry_missing_tool_calls : BOOLEAN]

DefaultLitellmConfig ==
    [cost_tracking |-> "default", use_streaming |-> FALSE, stream_include_usage |-> TRUE,
     tool_choice |-> "unset", retry_missing_tool_calls |-> FALSE]

Configs ==
    { [model_class |-> "litellm", step_limit |-> s, cost_limit |-> c, model |-> m] :
        s \in StepLimits, c \in CostLimits, m \in LitellmConfigs }
    \cup
    { [model_class |-> "slow_exit", step_limit |-> s, cost_limit |-> 0,
       model |-> DefaultLitellmConfig] : s \in StepLimits }

----
(* models/context_window.py: model names, as sequences of characters *)

Whitespace == {" "}
Digits == {"0", "1", "2", "3", "4", "5", "6", "7", "8", "9"}
Lowercase == <<"a", "b", "c", "d", "e", "f", "g", "h", "i", "j", "k", "l", "m",
               "n", "o", "p", "q", "r", "s", "t", "u", "v", "w", "x", "y", "z">>
Uppercase == <<"A", "B", "C", "D", "E", "F", "G", "H", "I", "J", "K", "L", "M",
               "N", "O", "P", "Q", "R", "S", "T", "U", "V", "W", "X", "Y", "Z">>

\* the characters of the class [a-z0-9_]
WordChars == {Lowercase[i] : i \in 1..Len(Lowercase)} \cup Digits \cup {"_"}

\* str.strip(): the name without the whitespace at its two ends
strip(name) ==
    LET inked == { i \in 1..Len(name) : name[i] \notin Whitespace }
    IN  IF inked = {} THEN <<>>
        ELSE SubSeq(name, CHOOSE i \in inked : \A j \in inked : i <= j,
                          CHOOSE i \in inked : \A j \in inked : i >= j)

\* str.lower()
lower(name) ==
    [i \in 1..Len(name) |->
        IF \E k \in 1..Len(Uppercase) : Uppercase[k] = name[i]
        THEN Lowercase[CHOOSE k \in 1..Len(Uppercase) : Uppercase[k] = name[i]]
        ELSE name[i]]

\* the slashes of a name
Slashes(name) == { i \in 1..Len(name) : name[i] = "/" }

\* the provider dropped after the first slash instead
_drop_provider_first(name) ==
    IF Slashes(name) = {} THEN name
    ELSE SubSeq(name, (CHOOSE i \in Slashes(name) : \A j \in Slashes(name) : i <= j) + 1,
                Len(name))

\* if "/" in normalized: normalized = normalized.split("/")[-1]
_drop_provider(name) ==
    IF Slashes(name) = {} THEN name
    ELSE SubSeq(name, (CHOOSE i \in Slashes(name) : \A j \in Slashes(name) : i >= j) + 1,
                Len(name))

\* str.endswith
endswith(name, suffix) ==
    /\ Len(name) >= Len(suffix)
    /\ SubSeq(name, Len(name) - Len(suffix) + 1, Len(name)) = suffix

\* every character of the text is of the class
AllIn(text, class) == \A i \in 1..Len(text) : text[i] \in class

\* _DATE_SUFFIX_RE without its "$": -(?:\d{4}-\d{2}-\d{2}|\d{8}) is all of the text
_DATE_SUFFIX_RE(text) ==
    \/ /\ Len(text) = 9
       /\ text[1] = "-"
       /\ AllIn(SubSeq(text, 2, 9), Digits)
    \/ /\ Len(text) = 11
       /\ text[1] = "-" /\ text[6] = "-" /\ text[9] = "-"
       /\ AllIn(SubSeq(text, 2, 5), Digits)
       /\ AllIn(SubSeq(text, 7, 8), Digits)
       /\ AllIn(SubSeq(text, 10, 11), Digits)

_SUFFIXES ==
    << <<"-", "p", "r", "e", "v", "i", "e", "w">>,
       <<"-", "b", "e", "t", "a">>,
       <<"-", "l", "a", "t", "e", "s", "t">> >>

\* the quantization names of _QUANT_SUFFIX_RE
QuantNames ==
    { <<"f", "p", "8">>, <<"f", "p", "1", "6">>, <<"b", "f", "1", "6">>,
      <<"i", "n", "t", "8">>, <<"i", "n", "t", "4">>, <<"a", "w", "q">>,
      <<"g", "p", "t", "q">>, <<"g", "g", "u", "f">> }

\* _QUANT_SUFFIX_RE without its "$": -(?:fp8|...|gguf)(?:-[a-z0-9_]+)? is all
\* of the text
_QUANT_SUFFIX_RE(text) ==
    /\ Len(text) >= 1
    /\ text[1] = "-"
    /\ \E n \in 1..(Len(text) - 1) :
         /\ SubSeq(text, 2, n + 1) \in QuantNames
         /\ \/ Len(text) = n + 1
            \/ /\ Len(text) >= n + 3
               /\ text[n + 2] = "-"
               /\ AllIn(SubSeq(text, n + 3, Len(text)), WordChars)

\* _Q_SUFFIX_RE without its "$": -q\d+(?:_[a-z0-9_]+)? is all of the text
_Q_SUFFIX_RE(text) ==
    /\ Len(text) >= 3
    /\ text[1] = "-"
    /\ text[2] = "q"
    /\ \E n \in 1..(Len(text) - 2) :
         /\ AllIn(SubSeq(text, 3, n + 2), Digits)
         /\ \/ Len(text) = n + 2
            \/ /\ Len(text) >= n + 4
               /\ text[n + 3] = "_"
               /\ AllIn(SubSeq(text, n + 4, Len(text)), WordChars)

\* the texts from a character of the name to its end, by where they start
Tails(name) == [i \in 1..Len(name) |-> SubSeq(name, i, Len(name))]

\* pattern.sub("", name) for a pattern that ends in "$", given the starts of the
\* tails that the pattern matches: the leftmost match is cut off
sub(starts, name) ==
    IF starts = {} THEN name
    ELSE SubSeq(name, 1, (CHOOSE i \in starts : \A j \in starts : i <= j) - 1)

\* for suffix in _SUFFIXES: if updated.endswith(suffix): updated = updated[:-len(suffix)]
RECURSIVE StripSuffixes(_, _)
StripSuffixes(updated, k) ==
    IF k > Len(_SUFFIXES) THEN updated
    ELSE StripSuffixes(IF endswith(updated, _SUFFIXES[k])
                       THEN SubSeq(updated, 1, Len(updated) - Len(_SUFFIXES[k]))
                       ELSE updated, k + 1)

\* one round of the while loop of normalize_model_name
StripRound(normalized) ==
    LET dated == sub({ i \in 1..Len(normalized) : _DATE_SUFFIX_RE(Tails(normalized)[i]) },
                     normalized)
        suffixed == StripSuffixes(dated, 1)
        quantized == sub({ i \in 1..Len(suffixed) : _QUANT_SUFFIX_RE(Tails(suffixed)[i]) },
                         suffixed)
    IN  sub({ i \in 1..Len(quantized) : _Q_SUFFIX_RE(Tails(quantized)[i]) }, quantized)

\* the while loop of normalize_model_name: rounds until one changes nothing
RECURSIVE StripAll(_)
StripAll(normalized) ==
    LET updated == StripRound(normalized)
    IN  IF updated = normalized THEN normalized ELSE StripAll(updated)

\* normalize_model_name
normalize_model_name(model_name) ==
    StripAll(_drop_provider(lower(strip(model_name))))

\* no name under normalization
NoNormalization == [model_name |-> <<>>, normalized |-> <<>>, again |-> <<>>, calls |-> 0]

\* LitellmResponseModel.__init__: _previous_response_id is None (0); no
\* litellm.responses call was made (passed: what each was given), no response
\* came back (ids) and none got past _calculate_cost (costed)
NoLinking == [_previous_response_id |-> 0, passed |-> <<>>, ids |-> <<>>, costed |-> <<>>]

----
(* models/context_window.py: the context-window map and its lookup *)

\* None, as lookup_context_window returns it; no budget is 0 or less
NoMatch == 0

\* str.startswith
startswith(name, prefix) ==
    /\ Len(name) >= Len(prefix)
    /\ SubSeq(name, 1, Len(prefix)) = prefix

\* the keys of normalized_map
NormalizedKeys(context_map) ==
    { normalize_model_name(context_map[i].key) : i \in 1..Len(context_map) }

\* normalized_map = {normalize_model_name(key): int(value) for key, value in
\* context_map.items()}: of the entries whose keys normalize alike, the one the
\* map yields last sets the value
normalized_map(context_map) ==
    [key \in NormalizedKeys(context_map) |->
        LET alike == { i \in 1..Len(context_map) :
                          normalize_model_name(context_map[i].key) = key }
        IN  context_map[CHOOSE i \in alike : \A j \in alike : i >= j].value]

\* the lookup that settles for the shortest key that is a prefix
lookup_context_window_shortest(model_name, context_map) ==
    LET normalized_name == normalize_model_name(model_name)
        normalized == normalized_map(context_map)
        prefixes == { key \in DOMAIN normalized :
                         startswith(normalized_name, key) /\ Len(key) > 0 }
    IN  IF normalized_name \in DOMAIN normalized THEN normalized[normalized_name]
        ELSE IF prefixes = {} THEN NoMatch
        ELSE normalized[CHOOSE key \in prefixes :
                           \A other \in prefixes : Len(key) <= Len(other)]

\* lookup_context_window: the value under the normalized name, else under the
\* longest key that the normalized name starts with (best_key starts as "" and
\* only a longer key replaces it), else None
lookup_context_window(model_name, context_map) ==
    LET normalized_name == normalize_model_name(model_name)
        normalized == normalized_map(context_map)
        prefixes == { key \in DOMAIN normalized :
                         startswith(normalized_name, key) /\ Len(key) > 0 }
    IN  IF normalized_name \in DOMAIN normalized THEN normalized[normalized_name]
        ELSE IF prefixes = {} THEN NoMatch
        ELSE normalized[CHOOSE key \in prefixes :
                           \A other \in prefixes : Len(key) >= Len(other)]

\* what yaml.safe_load gives for a key or a value of the live file: an int n,
\* a float (n in tenths; the type "inf" is the float .inf), a bool (n is 0 or
\* 1), a str (its text) or None
Yaml(type, n, text) == [type |-> type, n |-> n, text |-> text]

\* the number a string of decimal digits denotes
RECURSIVE Decimal(_)
Decimal(digits) ==
    IF digits = <<>> THEN 0
    ELSE 10 * Decimal(SubSeq(digits, 1, Len(digits) - 1))
         + (CHOOSE d \in 0..9 : ToString(d) = Last(digits))

\* int(value) of line 59: an int as it is, a bool as 0 or 1, a float cut
\* towards zero, a str parsed as an optionally signed decimal after strip();
\* TypeError for None, ValueError for any other str, OverflowError for .inf
int_of(value) ==
    LET text == strip(value.text)
        signed == text # <<>> /\ text[1] \in {"+", "-"}
        digits == IF signed THEN SubSeq(text, 2, Len(text)) ELSE text
    IN  CASE value.type \in {"int", "bool"} ->
                [raised |-> "none", n |-> value.n]
          [] value.type = "float" ->
                [raised |-> "none",
                 n |-> IF value.n >= 0 THEN value.n \div 10
                       ELSE -((-value.n) \div 10)]
          [] value.type = "inf" -> [raised |-> "OverflowError", n |-> 0]
          [] value.type = "None" -> [raised |-> "TypeError", n |-> 0]
          [] OTHER ->
                IF digits # <<>> /\ AllIn(digits, Digits)
                THEN [raised |-> "none",
                      n |-> IF signed /\ text[1] = "-" THEN -Decimal(digits)
                            ELSE Decimal(digits)]
                ELSE [raised |-> "ValueError", n |-> 0]

\* the loop of load_context_window_map over data.items(), from the i-th entry
\* with the entries cleaned so far: an entry under the key None is skipped, a
\* value int() rejects with TypeError or ValueError or a value not above zero
\* raises ValueError naming the key, an OverflowError of int() leaves the
\* function as it is
RECURSIVE load_from(_, _, _)
load_from(data, i, cleaned) ==
    IF i > Len(data) THEN [raised |-> "none", key |-> <<>>, cleaned |-> cleaned]
    ELSE IF data[i].key.type = "None" THEN load_from(data, i + 1, cleaned)
    ELSE LET int_value == int_of(data[i].value)
         IN  IF int_value.raised \in {"TypeError", "ValueError"}
             THEN [raised |-> "ValueError", key |-> data[i].key.text,
                   cleaned |-> <<>>]
             ELSE IF int_value.raised # "none"
             THEN [raised |-> int_value.raised, key |-> <<>>, cleaned |-> <<>>]
             ELSE IF int_value.n <= 0
             THEN [raised |-> "ValueError", key |-> data[i].key.text,
                   cleaned |-> <<>>]
             ELSE load_from(data, i + 1,
                            Append(cleaned, [key |-> data[i].key.text,
                                             value |-> int_value.n]))

\* load_context_window_map after ensure_live_context_window_map, on the mapping
\* read from the live file (an empty file reads as None, taken as {})
load_context_window_map(data) == load_from(data, 1, <<>>)

\* ord(), on the characters of the keys: their place in the order of the code
\* points
ord(char) ==
    LET chars == <<"-", ".", "/", "0", "1", "2", "3", "4", "5", "6", "7", "8",
                   "9", "_">> \o Lowercase
    IN  CHOOSE i \in 1..Len(chars) : chars[i] = char

\* the order of str: a < b
str_lt(a, b) ==
    \E i \in 1..(Len(b)) :
        /\ i <= Len(a) + 1
        /\ SubSeq(a, 1, i - 1) = SubSeq(b, 1, i - 1)
        /\ i = Len(a) + 1 \/ ord(a[i]) < ord(b[i])

\* context_map[key] = value on a dict: in place under a key it has, else added
\* at the end
dict_set(context_map, key, value) ==
    IF \E i \in 1..Len(context_map) : context_map[i].key = key
    THEN [ i \in 1..Len(context_map) |->
             IF context_map[i].key = key THEN [key |-> key, value |-> value]
             ELSE context_map[i] ]
    ELSE Append(context_map, [key |-> key, value |-> value])

\* yaml.safe_dump(sanitized, sort_keys=True) of save_context_window_map, as
\* safe_load reads it back: the entries as {str(key): int(value)} in the order
\* of their keys
safe_dump(context_map) ==
    [ i \in 1..Len(context_map) |->
        LET entry == CHOOSE e \in { context_map[j] : j \in 1..Len(context_map) } :
                        Cardinality({ j \in 1..Len(context_map) :
                                        str_lt(context_map[j].key, e.key) }) = i - 1
        IN  [key |-> Yaml("str", 0, entry.key),
             value |-> Yaml("int", entry.value, <<>>)] ]

\* the mappings of up to n entries with keys and values of the given sets, no
\* key twice
RECURSIVE FilesOf(_, _, _)
FilesOf(n, keys, values) ==
    IF n = 0 THEN { <<>> }
    ELSE LET shorter == FilesOf(n - 1, keys, values)
             longer == { t \in shorter \X keys \X values :
                           /\ Len(t[1]) = n - 1
                           /\ \A i \in 1..Len(t[1]) : t[1][i].key # t[2] }
         IN  shorter \cup
             { Append(t[1], [key |-> t[2], value |-> t[3]]) : t \in longer }

\* no live map file is looked at and no call into context_window.py is made
NoStore ==
    /\ live_map = [exists |-> FALSE, data |-> <<>>]
    /\ map_call = [pc |-> "none"]

\* nothing at the live-log destination
NoLiveFile ==
    /\ live = <<>>
    /\ live_exists = FALSE

\* DefaultAgent.__init__ as patched, with the model client: the fields of the
\* agent before the first run()
_patched_init ==
    /\ pc = "idle"
    /\ runs = 0
    /\ messages = <<>>
    /\ n_calls = 0
    /\ cost = 0
    /\ exc = NoException
    /\ result = NotReturned
    /\ n_steps = 0
    /\ n_saves = 0
    /\ saved = <<>>
    /\ global_cost = 0
    /\ q = NoQuery
    /\ n_returned = 0
    /\ n_raised = 0
    /\ cost_returned = 0
    /\ format_errors = 0
    /\ context_window_max = 0
    /\ sent = <<>>
    /\ warnings = 0
    /\ context_left_percent = -1
    /\ n_loads = 0

\* the agent and its model client as constructed, with no live file around
Constructed ==
    /\ _patched_init
    /\ NoLiveFile

\* no caller around the agent: run() is called on the agent directly, and no
\* file but the live file is looked at
NoInstance == [caller |-> "none", pc |-> "none"]
NoFile == [exists |-> FALSE]
NoCaller ==
    /\ instance = NoInstance
    /\ traj = NoFile
    /\ preds = NoFile
    /\ progress = <<>>

\* whether the caller calls run() now: a caller-less agent is run at will, the
\* runners call run() once, after set_live_trajectory_path
CallerRuns ==
    \/ instance.caller = "none"
    \/ instance.pc = "run" /\ (instance.caller = "direct" \/ runs = 0)

\* an agent without a live-log destination, for a model name the context-window
\* map does not know
Init ==
    /\ config \in Configs
    /\ side_effect \in ToolPayloads
    /\ resolved = 0
    /\ _live_trajectory_path = FALSE
    /\ stream_state = NoStream
    /\ Constructed
    /\ NoCaller
    /\ normalization = NoNormalization
    /\ linking = NoLinking
    /\ NoStore

\* the agents run with a live-log destination: the test model, the streaming
\* client and the plain client
LiveConfigs ==
    { [model_class |-> "slow_exit", step_limit |-> 0, cost_limit |-> 0,
       model |-> DefaultLitellmConfig],
      [model_class |-> "litellm", step_limit |-> 2, cost_limit |-> 0,
       model |-> [DefaultLitellmConfig EXCEPT !.use_streaming = TRUE]],
      [model_class |-> "litellm", step_limit |-> 1, cost_limit |-> 0,
       model |-> DefaultLitellmConfig] }

\* what the context-window map can yield for the model name: nothing, or a budget
ResolvedBudgets == {0, 4}

\* an agent after set_live_trajectory_path(path) has set the destination and
\* removed the file that was there
LiveInit ==
    /\ config \in LiveConfigs
    /\ side_effect \in ToolPayloads
    /\ resolved \in ResolvedBudgets
    /\ _live_trajectory_path = TRUE
    /\ stream_state = NoStream
    /\ Constructed
    /\ NoCaller
    /\ normalization = NoNormalization
    /\ linking = NoLinking
    /\ NoStore

----
(* agents/enhancements.py: the agent *)

\* DefaultAgent.add_messages as patched: extends the history (the live-log mirror
\* has no destination set here)
_patched_add_messages(history, new) == history \o new

\* how many lines an append to the live file can get written: none without a
\* destination; otherwise all of them, or those written before a failure, which
\* is logged as a warning and swallowed
LiveLines(new) == IF _live_trajectory_path THEN 0..Len(new) ELSE {0}

\* json.dumps(to_jsonable(message)) + "\n": one line of the live file
JsonLine(message) == [json |-> message]

\* the live-file half of add_messages swallowing a failure without a warning
_patched_add_messages_live_silent(new) ==
    IF ~_live_trajectory_path
    THEN UNCHANGED <<live, live_exists, warnings>>
    ELSE \/ /\ live' = live \o [i \in 1..Len(new) |-> JsonLine(new[i])]
            /\ live_exists' = TRUE
            /\ UNCHANGED warnings
         \/ \E k \in LiveLines(new) \ {Len(new)}, opened \in BOOLEAN :
               /\ k > 0 => opened
               /\ live' = live \o [i \in 1..k |-> JsonLine(new[i])]
               /\ live_exists' = (live_exists \/ opened)
               /\ UNCHANGED warnings

\* the live-file half of add_messages: one line per new message, in order
_patched_add_messages_live(new) ==
    IF ~_live_trajectory_path
    THEN UNCHANGED <<live, live_exists, warnings>>
    ELSE \/ /\ live' = live \o [i \in 1..Len(new) |-> JsonLine(new[i])]
            /\ live_exists' = TRUE
            /\ UNCHANGED warnings
         \/ \E k \in LiveLines(new) \ {Len(new)}, opened \in BOOLEAN :
               /\ k > 0 => opened
               /\ live' = live \o [i \in 1..k |-> JsonLine(new[i])]
               /\ live_exists' = (live_exists \/ opened)
               /\ warnings' = warnings + 1

\* the model name of the client's config; the configurations that do not name
\* one are those of a named model
model_name(cfg) == IF "model_name" \in DOMAIN cfg THEN cfg.model_name ELSE "gpt-4o"

\* _resolve_context_window_max: keep a budget already resolved; without a model
\* name there is nothing to look up; else take what the context-window map
\* yields for the model name
_resolve_context_window_max(max) ==
    IF max # 0 THEN max
    ELSE IF model_name(config) = "" THEN 0
    ELSE resolved

\* the load_context_window_map calls one _resolve_context_window_max makes
Loads(max) == IF max = 0 /\ model_name(config) # "" THEN 1 ELSE 0

\* the readings (prompt_tokens, max) among those tried for which the double
\* 100 * (1 - prompt_tokens / max) comes out just short of the whole number it
\* is in exact arithmetic (4 of 5: 19.999999999999996)
FallsShort == { <<4, 5>>, <<6, 5>>, <<7, 5>>, <<8, 10>>, <<9, 10>>, <<12, 10>> }

\* int(x) for the double x = 100 * (1 - prompt_tokens / max): the whole part,
\* cut toward zero
int(prompt_tokens, max) ==
    LET scaled == 100 * (max - prompt_tokens)
        whole == IF scaled >= 0 THEN scaled \div max ELSE 0 - ((0 - scaled) \div max)
    IN  IF <<prompt_tokens, max>> \notin FallsShort THEN whole
        ELSE IF whole > 0 THEN whole - 1 ELSE whole + 1

\* the percentage without the clamp
_context_left_percent_unclamped(prompt_tokens, max) == int(prompt_tokens, max)

\* max(0, min(100, int(100 * (1 - prompt_tokens / max))))
_context_left_percent(prompt_tokens, max) ==
    LET left == int(prompt_tokens, max)
    IN  IF left < 0 THEN 0 ELSE IF left > 100 THEN 100 ELSE left

\* _update_context_window_stats: with the prompt tokens of the response's usage
\* and a resolved budget, the message gets a top-level context_left_percent key
_update_context_window_stats(message, usage, max) ==
    IF usage.present /\ max # 0
    THEN message @@ [context_left_percent |-> _context_left_percent(usage.prompt_tokens, max)]
    ELSE message

SystemMessage == Message("system", "system_template", "none", NoExtra)
UserMessage == Message("user", "instance_template", "none", NoExtra)

LimitsExceededMessage ==
    Message("exit", "LimitsExceeded", "none", ExitExtra("LimitsExceeded", ""))

\* the limit check letting the call at the ceiling through
LimitReached_strict(cfg, calls, spent) ==
    \/ (0 < cfg.step_limit /\ cfg.step_limit < calls)
    \/ (0 < cfg.cost_limit /\ cfg.cost_limit < spent)

\* the limit check without the step limit
LimitReached_cost_only(cfg, calls, spent) ==
    0 < cfg.cost_limit /\ cfg.cost_limit <= spent

\* the condition of _patched_query under which LimitsExceeded is raised
LimitReached(cfg, calls, spent) ==
    \/ (0 < cfg.step_limit /\ cfg.step_limit <= calls)
    \/ (0 < cfg.cost_limit /\ cfg.cost_limit <= spent)

\* run(): reset the history, append the system and the user message, enter the loop
_patched_run ==
    /\ pc \in {"idle", "returned", "raised"}
    /\ runs < MaxRuns
    /\ CallerRuns
    /\ runs' = runs + 1
    /\ messages' = _patched_add_messages(<<>>, <<SystemMessage, UserMessage>>)
    /\ exc' = NoException
    /\ result' = NotReturned
    /\ n_steps' = 0
    /\ n_saves' = 0
    /\ format_errors' = 0
    /\ pc' = "step"
    /\ context_window_max' = _resolve_context_window_max(context_window_max)
    /\ _patched_add_messages_live(<<SystemMessage, UserMessage>>)
    /\ UNCHANGED <<config, n_calls, cost, saved, global_cost, q, side_effect,
                   n_returned, n_raised, cost_returned>>
    /\ UNCHANGED <<resolved, _live_trajectory_path, sent, stream_state>>
    /\ n_loads' = Loads(context_window_max)
    /\ UNCHANGED <<context_left_percent, instance, traj, preds, progress, normalization, linking>>
    /\ UNCHANGED <<live_map, map_call>>

\* step() -> query(): the limit check, then n_calls += 1 and the call of model.query
_patched_query ==
    /\ pc = "step"
    /\ n_steps' = n_steps + 1
    /\ IF LimitReached(config, n_calls, cost)
       THEN /\ exc' = [type |-> "LimitsExceeded", messages |-> <<LimitsExceededMessage>>]
            /\ pc' = "except"
            /\ UNCHANGED <<n_calls, q>>
       ELSE /\ n_calls < MaxCalls
            /\ n_calls' = n_calls + 1
            /\ q' = [NoQuery EXCEPT !.attempt = 1, !.history_before = messages,
                                    !.global_before = global_cost]
            /\ pc' = "backend"
            /\ UNCHANGED exc
    /\ context_window_max' = IF LimitReached(config, n_calls, cost)
                             THEN context_window_max
                             ELSE _resolve_context_window_max(context_window_max)
    /\ UNCHANGED <<config, runs, messages, cost, result, n_saves, saved, global_cost,
                   side_effect, n_returned, n_raised, cost_returned, format_errors>>
    /\ UNCHANGED <<resolved, _live_trajectory_path, live, live_exists, warnings, sent, stream_state>>
    /\ n_loads' = IF LimitReached(config, n_calls, cost)
                  THEN n_loads
                  ELSE n_loads + Loads(context_window_max)
    /\ UNCHANGED <<context_left_percent, instance, traj, preds, progress, normalization, linking>>
    /\ UNCHANGED <<live_map, map_call>>

\* the message model.query returned, after _update_context_window_stats has read
\* the usage of its raw response
Tracked(qq) == _update_context_window_stats(qq.message, qq.response.usage, context_window_max)

\* the agent's context_left_percent after _update_context_window_stats: set
\* together with the message's key, else left as it was
TrackedPercent(qq, percent) ==
    IF qq.response.usage.present /\ context_window_max # 0
    THEN _context_left_percent(qq.response.usage.prompt_tokens, context_window_max)
    ELSE percent

\* query() charging the agent for the response a FormatError carries
_patched_query_resume_charging_errors ==
    /\ pc = "query_done"
    /\ IF q.outcome = "returned"
       THEN /\ cost' = cost + q.message.extra.cost
            /\ messages' = _patched_add_messages(messages, <<Tracked(q)>>)
            /\ _patched_add_messages_live(<<Tracked(q)>>)
            /\ pc' = "execute"
            /\ n_returned' = n_returned + 1
            /\ cost_returned' = cost_returned + q.message.extra.cost
            /\ UNCHANGED <<exc, n_raised, format_errors>>
       ELSE /\ exc' = [type |-> q.outcome, messages |-> q.raised]
            /\ pc' = "except"
            /\ n_raised' = n_raised + 1
            /\ format_errors' = format_errors + (IF q.outcome = "FormatError" THEN 1 ELSE 0)
            /\ cost' = cost + (IF q.outcome = "FormatError" THEN q.cost_output ELSE 0)
            /\ UNCHANGED <<messages, live, live_exists, warnings, n_returned, cost_returned>>
    /\ q' = NoQuery
    /\ UNCHANGED <<config, runs, n_calls, result, n_steps, n_saves, saved, global_cost,
                   side_effect>>
    /\ UNCHANGED <<resolved, context_window_max, _live_trajectory_path, sent, stream_state>>
    /\ context_left_percent' = IF q.outcome = "returned"
                               THEN TrackedPercent(q, context_left_percent)
                               ELSE context_left_percent
    /\ UNCHANGED <<n_loads, instance, traj, preds, progress, normalization, linking>>
    /\ UNCHANGED <<live_map, map_call>>

\* query() after model.query: a returned message is costed and appended; an
\* exception of model.query leaves query() at once
_patched_query_resume ==
    /\ pc = "query_done"
    /\ IF q.outcome = "returned"
       THEN /\ cost' = cost + q.message.extra.cost
            /\ messages' = _patched_add_messages(messages, <<Tracked(q)>>)
            /\ _patched_add_messages_live(<<Tracked(q)>>)
            /\ pc' = "execute"
            /\ n_returned' = n_returned + 1
            /\ cost_returned' = cost_returned + q.message.extra.cost
            /\ UNCHANGED <<exc, n_raised, format_errors>>
       ELSE /\ exc' = [type |-> q.outcome, messages |-> q.raised]
            /\ pc' = "except"
            /\ n_raised' = n_raised + 1
            /\ format_errors' = format_errors + (IF q.outcome = "FormatError" THEN 1 ELSE 0)
            /\ UNCHANGED <<cost, messages, live, live_exists, warnings, n_returned, cost_returned>>
    /\ q' = NoQuery
    /\ UNCHANGED <<config, runs, n_calls, result, n_steps, n_saves, saved, global_cost,
                   side_effect>>
    /\ UNCHANGED <<resolved, context_window_max, _live_trajectory_path, sent, stream_state>>
    /\ context_left_percent' = IF q.outcome = "returned"
                               THEN TrackedPercent(q, context_left_percent)
                               ELSE context_left_percent
    /\ UNCHANGED <<n_loads, instance, traj, preds, progress, normalization, linking>>
    /\ UNCHANGED <<live_map, map_call>>

\* what Environment.execute does with an action: return an output, signal the
\* submission, fail, or be interrupted by the user
ExecuteOutcomes == {"output", "Submitted", "EnvironmentError", "KeyboardInterrupt"}

ObservationMessage == Message("tool", "observation", "none", NoExtra)
SubmittedMessage == Message("exit", "submission", "none", ExitExtra("Submitted", "patch"))

\* step() -> execute_actions(message): run the actions of the message just
\* appended and append one observation per action
execute_actions ==
    /\ pc = "execute"
    /\ IF Last(messages).extra.actions = 0
       THEN /\ pc' = "finally"
            /\ UNCHANGED <<messages, live, live_exists, warnings, exc>>
       ELSE \E o \in ExecuteOutcomes :
            IF o = "output"
            THEN /\ messages' = _patched_add_messages(messages, <<ObservationMessage>>)
                 /\ _patched_add_messages_live(<<ObservationMessage>>)
                 /\ pc' = "finally"
                 /\ UNCHANGED exc
            ELSE /\ exc' = [type |-> o,
                            messages |-> IF o = "Submitted" THEN <<SubmittedMessage>>
                                         ELSE <<>>]
                 /\ pc' = "except"
                 /\ UNCHANGED <<messages, live, live_exists, warnings>>
    /\ UNCHANGED <<config, runs, n_calls, cost, result, n_steps, n_saves, saved,
                   global_cost, q, side_effect, n_returned, n_raised, cost_returned,
                   format_errors>>
    /\ UNCHANGED <<resolved, context_window_max, _live_trajectory_path, sent, stream_state>>
    /\ UNCHANGED <<context_left_percent, n_loads, instance, traj, preds, progress,
                   normalization, linking>>
    /\ UNCHANGED <<live_map, map_call>>

\* the exit message that records an uncaught exception
ExceptionMessage(e) == Message("exit", "exception", "none", ExitExtra(e.type, ""))

\* DefaultAgent.handle_uncaught_exception: record the exception as an exit message
handle_uncaught_exception(history, e) ==
    _patched_add_messages(history, <<ExceptionMessage(e)>>)

\* the run loop saving in its except clauses only, not in a finally clause
_patched_run_except_then_save ==
    /\ pc = "except"
    /\ IF exc.type \in InterruptAgentFlow
       THEN /\ messages' = _patched_add_messages(messages, exc.messages)
            /\ _patched_add_messages_live(exc.messages)
            /\ exc' = NoException
       ELSE IF exc.type \notin BaseExceptions
       THEN /\ messages' = handle_uncaught_exception(messages, exc)
            /\ _patched_add_messages_live(<<ExceptionMessage(exc)>>)
            /\ UNCHANGED exc
       ELSE UNCHANGED <<messages, live, live_exists, warnings, exc>>
    /\ pc' = IF exc.type \in BaseExceptions THEN "raised" ELSE "finally"
    /\ UNCHANGED <<config, runs, n_calls, cost, result, n_steps, n_saves, saved,
                   global_cost, q, side_effect, n_returned, n_raised, cost_returned,
                   format_errors>>
    /\ UNCHANGED <<resolved, context_window_max, _live_trajectory_path, sent, stream_state>>
    /\ UNCHANGED <<context_left_percent, n_loads, instance, traj, preds, progress,
                   normalization, linking>>
    /\ UNCHANGED <<live_map, map_call>>

\* the run loop taking FormatError for an uncaught exception
_patched_run_except_format_fatal ==
    /\ pc = "except"
    /\ IF exc.type \in InterruptAgentFlow \ {"FormatError"}
       THEN /\ messages' = _patched_add_messages(messages, exc.messages)
            /\ _patched_add_messages_live(exc.messages)
            /\ exc' = NoException
       ELSE IF exc.type \notin BaseExceptions
       THEN /\ messages' = handle_uncaught_exception(messages, exc)
            /\ _patched_add_messages_live(<<ExceptionMessage(exc)>>)
            /\ UNCHANGED exc
       ELSE UNCHANGED <<messages, live, live_exists, warnings, exc>>
    /\ pc' = "finally"
    /\ UNCHANGED <<config, runs, n_calls, cost, result, n_steps, n_saves, saved,
                   global_cost, q, side_effect, n_returned, n_raised, cost_returned,
                   format_errors>>
    /\ UNCHANGED <<resolved, context_window_max, _live_trajectory_path, sent, stream_state>>
    /\ UNCHANGED <<context_left_percent, n_loads, instance, traj, preds, progress,
                   normalization, linking>>
    /\ UNCHANGED <<live_map, map_call>>

\* the except clauses of the run loop: a flow interruption hands its messages to
\* the history and is swallowed; any other Exception is recorded and raised
\* again; a BaseException matches no clause
_patched_run_except ==
    /\ pc = "except"
    /\ IF exc.type \in InterruptAgentFlow
       THEN /\ messages' = _patched_add_messages(messages, exc.messages)
            /\ _patched_add_messages_live(exc.messages)
            /\ exc' = NoException
       ELSE IF exc.type \notin BaseExceptions
       THEN /\ messages' = handle_uncaught_exception(messages, exc)
            /\ _patched_add_messages_live(<<ExceptionMessage(exc)>>)
            /\ UNCHANGED exc
       ELSE UNCHANGED <<messages, live, live_exists, warnings, exc>>
    /\ pc' = "finally"
    /\ UNCHANGED <<config, runs, n_calls, cost, result, n_steps, n_saves, saved,
                   global_cost, q, side_effect, n_returned, n_raised, cost_returned,
                   format_errors>>
    /\ UNCHANGED <<resolved, context_window_max, _live_trajectory_path, sent, stream_state>>
    /\ UNCHANGED <<context_left_percent, n_loads, instance, traj, preds, progress,
                   normalization, linking>>
    /\ UNCHANGED <<live_map, map_call>>

\* the finally clause of the run loop: save(output_path) writes the whole history;
\* an exception still in flight then leaves run()
_patched_run_finally ==
    /\ pc = "finally"
    /\ saved' = messages
    /\ n_saves' = n_saves + 1
    /\ pc' = IF exc = NoException THEN "check" ELSE "raised"
    /\ UNCHANGED <<config, runs, messages, n_calls, cost, exc, result, n_steps,
                   global_cost, q, side_effect, n_returned, n_raised, cost_returned,
                   format_errors>>
    /\ UNCHANGED <<resolved, context_window_max, _live_trajectory_path, live, live_exists, warnings, sent, stream_state>>
    /\ UNCHANGED <<context_left_percent, n_loads, instance, traj, preds, progress,
                   normalization, linking>>
    /\ UNCHANGED <<live_map, map_call>>

\* the loop test leaving the loop on a submission only
_patched_run_check_submitted ==
    /\ pc = "check"
    /\ IF Last(messages).extra.exit_status = "Submitted"
       THEN /\ result' = Last(messages).extra
            /\ pc' = "returned"
       ELSE /\ pc' = "step"
            /\ UNCHANGED result
    /\ UNCHANGED <<config, runs, messages, n_calls, cost, exc, n_steps, n_saves, saved,
                   global_cost, q, side_effect, n_returned, n_raised, cost_returned,
                   format_errors>>
    /\ UNCHANGED <<resolved, context_window_max, _live_trajectory_path, live, live_exists, warnings, sent, stream_state>>
    /\ UNCHANGED <<context_left_percent, n_loads, instance, traj, preds, progress,
                   normalization, linking>>
    /\ UNCHANGED <<live_map, map_call>>

\* the loop test: leave the loop when the last message is an exit message and
\* return its extra payload
_patched_run_check ==
    /\ pc = "check"
    /\ IF Last(messages).role = "exit"
       THEN /\ result' = Last(messages).extra
            /\ pc' = "returned"
       ELSE /\ pc' = "step"
            /\ UNCHANGED result
    /\ UNCHANGED <<config, runs, messages, n_calls, cost, exc, n_steps, n_saves, saved,
                   global_cost, q, side_effect, n_returned, n_raised, cost_returned,
                   format_errors>>
    /\ UNCHANGED <<resolved, context_window_max, _live_trajectory_path, live, live_exists, warnings, sent, stream_state>>
    /\ UNCHANGED <<context_left_percent, n_loads, instance, traj, preds, progress,
                   normalization, linking>>
    /\ UNCHANGED <<live_map, map_call>>

----
(* tests/run/test_swebench.py: a model that answers with an exit message *)

SlowExitModel_query ==
    /\ pc = "backend"
    /\ config.model_class = "slow_exit"
    /\ q' = [q EXCEPT !.outcome = "returned",
                      !.message = Message("exit", "", "none",
                                     [ExitExtra("Submitted", "") EXCEPT !.kind = "model"])]
    /\ pc' = "query_done"
    /\ UNCHANGED <<config, runs, messages, n_calls, cost, exc, result, n_steps, n_saves,
                   saved, global_cost, side_effect, n_returned, n_raised, cost_returned,
                   format_errors>>
    /\ UNCHANGED <<resolved, context_window_max, _live_trajectory_path, live, live_exists, warnings, sent, stream_state>>
    /\ UNCHANGED <<context_left_percent, n_loads, instance, traj, preds, progress,
                   normalization, linking>>
    /\ UNCHANGED <<live_map, map_call>>

----
(* tests/agents/test_default.py: a model that answers with a usage reading *)

\* the prompt-token counts the model reports, and a response without usage
PromptTokens == {-1, 0, 3, 4, 9, 12}
UsageReadings ==
    {NoUsage} \cup [present : {TRUE}, prompt_tokens : PromptTokens, completion_tokens : {2}]

\* what the context-window map can yield for the model name of these agents
TrackBudgets == {0, 2, 5, 9, 10}

\* the agents around a _UsageModel, with and without a model name
TrackConfigs ==
    { [model_class |-> "usage", step_limit |-> 2, cost_limit |-> 0,
       model |-> DefaultLitellmConfig, model_name |-> n] : n \in {"", "gpt-4o"} }

TrackInit ==
    /\ config \in TrackConfigs
    /\ side_effect = "none"
    /\ resolved \in TrackBudgets
    /\ _live_trajectory_path = FALSE
    /\ stream_state = NoStream
    /\ Constructed
    /\ NoCaller
    /\ normalization = NoNormalization
    /\ linking = NoLinking
    /\ NoStore

\* _UsageModel.query: an assistant message without actions whose raw response
\* carries the usage
_UsageModel_query ==
    /\ pc = "backend"
    /\ config.model_class = "usage"
    /\ \E u \in UsageReadings :
         q' = [q EXCEPT !.outcome = "returned",
                        !.response = [NoResponse EXCEPT !.usage = u],
                        !.message = Message("assistant", "ok", "none",
                                       [NoExtra EXCEPT !.kind = "model"])]
    /\ pc' = "query_done"
    /\ UNCHANGED <<config, runs, messages, n_calls, cost, exc, result, n_steps, n_saves,
                   saved, global_cost, side_effect, n_returned, n_raised, cost_returned,
                   format_errors>>
    /\ UNCHANGED <<resolved, context_window_max, _live_trajectory_path, live, live_exists, warnings, sent, stream_state>>
    /\ UNCHANGED <<context_left_percent, n_loads, instance, traj, preds, progress,
                   normalization, linking>>
    /\ UNCHANGED <<live_map, map_call>>

----
(* models/litellm_model.py: the model client *)

\* _prepare_messages_for_api: every history message without its "extra" key, all
\* other keys kept (the reordering and cache-marking passes drop no key)
_prepare_messages_for_api(history) ==
    [i \in 1..Len(history) |->
        [k \in DOMAIN history[i] \ {"extra"} |-> history[i][k]]]

\* one litellm.completion call as the backend saw it, with what it answered
BackendCall(stream, cfg, attempt, ok, tools, usage) ==
    [stream |-> stream, tool_choice |-> cfg.tool_choice, attempt |-> attempt, ok |-> ok,
     tools |-> tools, usage |-> usage]

\* an abort list that names the user's interrupt only
abort_exceptions_interrupt_only == {"KeyboardInterrupt"}

\* the failures of a backend call listed in LitellmModel.abort_exceptions: the
\* designated litellm errors (one stands for all) and the user's interrupt
abort_exceptions == {"abort", "KeyboardInterrupt"}

\* the exception a failure of the backend call surfaces as
Raises(failure) ==
    CASE failure = "transient" -> "BackendError"
      [] failure = "abort" -> "AuthenticationError"
      [] OTHER -> "KeyboardInterrupt"

\* the retry policy around _query: a failure of the abort list leaves query() at
\* once, any other failure is tried again up to MaxAttempts attempts
retry(qq, failure) ==
    IF failure \notin abort_exceptions /\ qq.attempt < MaxAttempts
    THEN [qq EXCEPT !.attempt = @ + 1, !.failure = failure]
    ELSE [qq EXCEPT !.outcome = Raises(failure), !.failure = failure]

AfterBackend(qq) == IF qq.outcome = "none" THEN "backend" ELSE "query_done"

\* the usage check looking at the prompt tokens only
_is_usage_valid_prompt_only(usage) ==
    /\ usage.present
    /\ usage.prompt_tokens > 0

_is_usage_valid(usage) ==
    /\ usage.present
    /\ usage.prompt_tokens > 0
    /\ usage.completion_tokens > 0

\* _query -> _query_non_streaming: one litellm.completion call; also the
\* fallback call of _query_streaming
_query_non_streaming ==
    /\ config.model_class = "litellm"
    /\ \/ pc = "backend" /\ ~config.model.use_streaming
       \/ pc = "fallback"
    /\ \/ \E f \in BackendFailures :
            /\ q' = retry([q EXCEPT !.calls = Append(@,
                              BackendCall(FALSE, config.model, q.attempt, FALSE, "none", NoUsage))], f)
            /\ pc' = AfterBackend(q')
            /\ UNCHANGED side_effect
       \/ /\ q' = [q EXCEPT !.calls = Append(@,
                              BackendCall(FALSE, config.model, q.attempt, TRUE, side_effect, NoUsage)),
                            !.response = [tools |-> side_effect, usage |-> NoUsage,
                                          call |-> Len(q.calls) + 1]]
          /\ side_effect' \in ToolPayloads
          /\ pc' = "cost"
    /\ UNCHANGED <<config, runs, messages, n_calls, cost, exc, result, n_steps, n_saves,
                   saved, global_cost, n_returned, n_raised, cost_returned,
                   format_errors>>
    /\ sent' = _prepare_messages_for_api(messages)
    /\ UNCHANGED <<resolved, context_window_max, _live_trajectory_path, live, live_exists, warnings, stream_state>>
    /\ UNCHANGED <<context_left_percent, n_loads, instance, traj, preds, progress,
                   normalization, linking>>
    /\ UNCHANGED <<live_map, map_call>>

\* whether _query_streaming throws the reconstructed response away and asks again
\* without streaming
NeedsFallback(cfg, usage) == cfg.stream_include_usage /\ ~_is_usage_valid(usage)

\* _query -> _query_streaming: one streamed litellm.completion call and the
\* reconstruction of its response
_query_streaming ==
    /\ config.model_class = "litellm"
    /\ pc = "backend"
    /\ config.model.use_streaming
    /\ \/ \E f \in BackendFailures :
            /\ q' = retry([q EXCEPT !.calls = Append(@,
                              BackendCall(TRUE, config.model, q.attempt, FALSE, "none", NoUsage))], f)
            /\ pc' = AfterBackend(q')
            /\ UNCHANGED side_effect
       \/ \E u \in Usages :
            /\ side_effect' \in ToolPayloads
            /\ IF NeedsFallback(config.model, u)
               THEN /\ q' = [q EXCEPT !.calls = Append(@,
                                 BackendCall(TRUE, config.model, q.attempt, TRUE, side_effect, u))]
                    /\ pc' = "fallback"
               ELSE /\ q' = [q EXCEPT !.calls = Append(@,
                                 BackendCall(TRUE, config.model, q.attempt, TRUE, side_effect, u)),
                                      !.response = [tools |-> side_effect, usage |-> u,
                                                    call |-> Len(q.calls) + 1]]
                    /\ pc' = "cost"
    /\ UNCHANGED <<config, runs, messages, n_calls, cost, exc, result, n_steps, n_saves,
                   saved, global_cost, n_returned, n_raised, cost_returned,
                   format_errors>>
    /\ sent' = _prepare_messages_for_api(messages)
    /\ UNCHANGED <<resolved, context_window_max, _live_trajectory_path, live, live_exists, warnings, stream_state>>
    /\ UNCHANGED <<context_left_percent, n_loads, instance, traj, preds, progress,
                   normalization, linking>>
    /\ UNCHANGED <<live_map, map_call>>

\* _calculate_cost without the check for a non-positive cost
_calculate_cost_unchecked(o, cost_tracking) ==
    IF o.raises
    THEN [raised |-> cost_tracking # "ignore_errors", cost |-> 0]
    ELSE [raised |-> FALSE, cost |-> o.value]

\* _calculate_cost on what the cost calculator did: the cost to record, or the
\* fatal RuntimeError
_calculate_cost(o, cost_tracking) ==
    IF o.raises \/ o.value <= 0
    THEN [raised |-> cost_tracking # "ignore_errors", cost |-> 0]
    ELSE [raised |-> FALSE, cost |-> o.value]

\* query(): cost_output = _calculate_cost(response); GLOBAL_MODEL_STATS.add(cost)
query_calculate_cost ==
    /\ pc = "cost"
    /\ \E o \in CostOutcomes :
         LET out == _calculate_cost(o, config.model.cost_tracking) IN
         IF out.raised
         THEN /\ q' = [q EXCEPT !.cost_calcs = @ + 1, !.cost_of = q.response.call,
                                !.calc = o,
                                !.outcome = "RuntimeError"]
              /\ pc' = "query_done"
              /\ UNCHANGED global_cost
         ELSE /\ q' = [q EXCEPT !.cost_calcs = @ + 1, !.cost_of = q.response.call,
                                !.calc = o,
                                !.cost_output = out.cost]
              /\ global_cost' = global_cost + out.cost
              /\ pc' = "parse"
    /\ UNCHANGED <<config, runs, messages, n_calls, cost, exc, result, n_steps, n_saves,
                   saved, side_effect, n_returned, n_raised, cost_returned,
                   format_errors>>
    /\ UNCHANGED <<resolved, context_window_max, _live_trajectory_path, live, live_exists, warnings, sent, stream_state>>
    /\ UNCHANGED <<context_left_percent, n_loads, instance, traj, preds, progress,
                   normalization, linking>>
    /\ UNCHANGED <<live_map, map_call>>

\* parse_toolcall_actions: one action per well-formed tool call, or the text of
\* the format error
_parse_actions(tools) ==
    CASE tools = "valid" -> [ok |-> TRUE, actions |-> 1, error |-> ""]
      [] tools = "none" -> [ok |-> FALSE, actions |-> 0, error |-> "No tool calls found"]
      [] OTHER -> [ok |-> FALSE, actions |-> 0, error |-> "Malformed tool call"]

\* query() asking the backend again after a toolless response, whatever the
\* configuration
query_parse_actions_reissue ==
    /\ pc = "parse"
    /\ LET parsed == _parse_actions(q.response.tools) IN
       IF parsed.ok
       THEN /\ q' = [q EXCEPT !.parsed = @ + 1,
                      !.outcome = "returned",
                      !.message = Message("assistant", "reply", q.response.tools,
                                     [NoExtra EXCEPT !.kind = "model",
                                                     !.actions = parsed.actions,
                                                     !.cost = q.cost_output])]
            /\ pc' = "query_done"
            /\ UNCHANGED messages
       ELSE IF q.parsed = 0 /\ parsed.error = "No tool calls found"
       THEN /\ q' = [q EXCEPT !.parsed = @ + 1]
            /\ messages' = messages \o
                   << Message("assistant", "reply", q.response.tools, NoExtra),
                      Message("user", "You must respond using the bash tool.", "none",
                              NoExtra) >>
            /\ pc' = IF config.model.use_streaming THEN "fallback" ELSE "backend"
       ELSE /\ q' = [q EXCEPT !.parsed = @ + 1,
                      !.outcome = "FormatError",
                      !.raised = << Message("assistant", "reply", q.response.tools,
                                       [NoExtra EXCEPT !.kind = "debug",
                                                       !.parse_error = TRUE,
                                                       !.cost = q.cost_output]),
                                    Message("user", parsed.error, "none", NoExtra) >>]
            /\ pc' = "query_done"
            /\ UNCHANGED messages
    /\ UNCHANGED <<config, runs, n_calls, cost, exc, result, n_steps, n_saves,
                   saved, global_cost, side_effect, n_returned, n_raised, cost_returned,
                   format_errors>>
    /\ UNCHANGED <<resolved, context_window_max, _live_trajectory_path, live, live_exists, warnings, sent, stream_state>>
    /\ UNCHANGED <<context_left_percent, n_loads, instance, traj, preds, progress,
                   normalization, linking>>
    /\ UNCHANGED <<live_map, map_call>>

\* query(): parse the actions of the response; return the message with its extra,
\* or raise FormatError carrying the debug copy of the reply and the parser's
\* messages
query_parse_actions ==
    /\ pc = "parse"
    /\ LET parsed == _parse_actions(q.response.tools) IN
       IF parsed.ok
       THEN q' = [q EXCEPT !.parsed = @ + 1,
                    !.outcome = "returned",
                    !.message = Message("assistant", "reply", q.response.tools,
                                   [NoExtra EXCEPT !.kind = "model",
                                                   !.actions = parsed.actions,
                                                   !.cost = q.cost_output])]
       ELSE q' = [q EXCEPT !.parsed = @ + 1,
                    !.outcome = "FormatError",
                    !.raised = << Message("assistant", "reply", q.response.tools,
                                     [NoExtra EXCEPT !.kind = "debug",
                                                     !.parse_error = TRUE,
                                                     !.cost = q.cost_output]),
                                  Message("user", parsed.error, "none", NoExtra) >>]
    /\ pc' = "query_done"
    /\ UNCHANGED <<config, runs, messages, n_calls, cost, exc, result, n_steps, n_saves,
                   saved, global_cost, side_effect, n_returned, n_raised, cost_returned,
                   format_errors>>
    /\ UNCHANGED <<resolved, context_window_max, _live_trajectory_path, live, live_exists, warnings, sent, stream_state>>
    /\ UNCHANGED <<context_left_percent, n_loads, instance, traj, preds, progress,
                   normalization, linking>>
    /\ UNCHANGED <<live_map, map_call>>

----
(* models/litellm_response_model.py: the Responses-API client *)

\* the agents whose model client is a LitellmResponseModel
\* the id a caller hands over in model_kwargs["previous_response_id"]
CallerResponseId == -1

\* model_kwargs is empty (previous_response_id 0) or names the caller's id
ResponseConfigs ==
    { [model_class |-> "litellm_response", step_limit |-> s, cost_limit |-> 0,
       model |-> [DefaultLitellmConfig EXCEPT !.cost_tracking = c]
                 @@ [model_kwargs |-> [previous_response_id |-> k]]] :
        s \in {0, 2}, c \in {"default", "ignore_errors"}, k \in {0, CallerResponseId} }

\* _query: request_kwargs.setdefault("previous_response_id", self._previous_response_id)
\* when the client holds an id; what litellm.responses is then given (0: nothing)
PassedResponseId(cfg, previous) ==
    IF cfg.model_kwargs.previous_response_id # 0
    THEN cfg.model_kwargs.previous_response_id
    ELSE previous

\* the ids a response may carry: none or an empty one (0), or a new one
ResponseIds(ids) == {0, Len(ids) + 1}

ResponseInit ==
    /\ config \in ResponseConfigs
    /\ side_effect \in ToolPayloads
    /\ resolved = 0
    /\ _live_trajectory_path = FALSE
    /\ stream_state = NoStream
    /\ Constructed
    /\ NoCaller
    /\ normalization = NoNormalization
    /\ linking = NoLinking
    /\ NoStore

\* the output item of a response: a function call when the backend called the
\* tool, else a text item
OutputItem(tools) ==
    [type |-> IF tools = "none" THEN "message" ELSE "function_call", call |-> tools]

\* LitellmResponseModel._prepare_messages_for_api: a response object is replaced
\* by its output items, any other message loses its "extra" key
LitellmResponseModel_prepare_messages_for_api(history) ==
    [i \in 1..Len(history) |->
        IF "object" \in DOMAIN history[i]
        THEN history[i].output
        ELSE [k \in DOMAIN history[i] \ {"extra"} |-> history[i][k]]]

\* LitellmResponseModel._query: one litellm.responses call under the retry policy
LitellmResponseModel_query ==
    /\ config.model_class = "litellm_response"
    /\ pc = "backend"
    /\ \/ \E f \in BackendFailures :
            /\ q' = retry([q EXCEPT !.calls = Append(@,
                              BackendCall(FALSE, config.model, q.attempt, FALSE, "none", NoUsage))], f)
            /\ pc' = AfterBackend(q')
            /\ UNCHANGED side_effect
            /\ linking' = [linking EXCEPT
                              !.passed = Append(@, PassedResponseId(config.model,
                                                      linking._previous_response_id))]
       \/ /\ q' = [q EXCEPT !.calls = Append(@,
                              BackendCall(FALSE, config.model, q.attempt, TRUE, side_effect, NoUsage)),
                            !.response = [tools |-> side_effect, usage |-> NoUsage,
                                          call |-> Len(q.calls) + 1]]
          /\ side_effect' \in ToolPayloads
          /\ pc' = "cost"
          /\ \E id \in ResponseIds(linking.ids) :
                linking' = [linking EXCEPT
                              !.passed = Append(@, PassedResponseId(config.model,
                                                      linking._previous_response_id)),
                              !.ids = Append(@, id)]
    /\ sent' = LitellmResponseModel_prepare_messages_for_api(messages)
    /\ UNCHANGED <<config, runs, messages, n_calls, cost, exc, result, n_steps, n_saves,
                   saved, global_cost, n_returned, n_raised, cost_returned,
                   format_errors>>
    /\ UNCHANGED <<resolved, context_window_max, _live_trajectory_path, live, live_exists, warnings, stream_state>>
    /\ UNCHANGED <<context_left_percent, n_loads, instance, traj, preds, progress, normalization>>
    /\ UNCHANGED <<live_map, map_call>>

\* query() keeping the response id only once the actions were parsed
LitellmResponseModel_query_parse_id_last ==
    /\ config.model_class = "litellm_response"
    /\ pc = "parse"
    /\ LET parsed == _parse_actions(q.response.tools) IN
       IF parsed.ok
       THEN q' = [q EXCEPT !.parsed = @ + 1,
                    !.outcome = "returned",
                    !.message = Message("absent", "reply", q.response.tools,
                                   [NoExtra EXCEPT !.kind = "model",
                                                   !.actions = parsed.actions,
                                                   !.cost = q.cost_output])
                                @@ [object |-> "response",
                                    output |-> OutputItem(q.response.tools)]]
       ELSE q' = [q EXCEPT !.parsed = @ + 1,
                    !.outcome = "FormatError",
                    !.raised = << Message("user", parsed.error, "none", NoExtra) >>]
    /\ pc' = "query_done"
    /\ UNCHANGED <<config, runs, messages, n_calls, cost, exc, result, n_steps, n_saves,
                   saved, global_cost, side_effect, n_returned, n_raised, cost_returned,
                   format_errors>>
    /\ UNCHANGED <<resolved, context_window_max, _live_trajectory_path, live, live_exists, warnings, sent, stream_state>>
    /\ UNCHANGED <<context_left_percent, n_loads, instance, traj, preds, progress, normalization>>
    /\ linking' = [linking EXCEPT
                      !.costed = Append(@, Last(linking.ids)),
                      !._previous_response_id =
                          IF Last(linking.ids) # 0 /\ _parse_actions(q.response.tools).ok
                          THEN Last(linking.ids) ELSE @]
    /\ UNCHANGED <<live_map, map_call>>

\* LitellmResponseModel.query after the cost: the dumped response becomes the
\* message and the actions are parsed into its extra; a FormatError of the parser
\* leaves query() as the parser raised it
LitellmResponseModel_query_parse ==
    /\ config.model_class = "litellm_response"
    /\ pc = "parse"
    /\ LET parsed == _parse_actions(q.response.tools) IN
       IF parsed.ok
       THEN q' = [q EXCEPT !.parsed = @ + 1,
                    !.outcome = "returned",
                    !.message = Message("absent", "reply", q.response.tools,
                                   [NoExtra EXCEPT !.kind = "model",
                                                   !.actions = parsed.actions,
                                                   !.cost = q.cost_output])
                                @@ [object |-> "response",
                                    output |-> OutputItem(q.response.tools)]]
       ELSE q' = [q EXCEPT !.parsed = @ + 1,
                    !.outcome = "FormatError",
                    !.raised = << Message("user", parsed.error, "none", NoExtra) >>]
    /\ pc' = "query_done"
    /\ UNCHANGED <<config, runs, messages, n_calls, cost, exc, result, n_steps, n_saves,
                   saved, global_cost, side_effect, n_returned, n_raised, cost_returned,
                   format_errors>>
    /\ UNCHANGED <<resolved, context_window_max, _live_trajectory_path, live, live_exists, warnings, sent, stream_state>>
    /\ UNCHANGED <<context_left_percent, n_loads, instance, traj, preds, progress, normalization>>
    /\ linking' = [linking EXCEPT
                      !.costed = Append(@, Last(linking.ids)),
                      !._previous_response_id =
                          IF Last(linking.ids) # 0 THEN Last(linking.ids) ELSE @]
    /\ UNCHANGED <<live_map, map_call>>

\* the run loop driving a LitellmResponseModel
ResponseNext ==
    \/ _patched_run
    \/ _patched_query
    \/ _patched_query_resume
    \/ execute_actions
    \/ _patched_run_except
    \/ _patched_run_finally
    \/ _patched_run_check
    \/ LitellmResponseModel_query
    \/ query_calculate_cost
    \/ LitellmResponseModel_query_parse

ResponseSpec == ResponseInit /\ [][ResponseNext]_vars

----
(* models/litellm_model.py: the reconstruction of a streamed response *)

\* fragments a stream may hold
MaxChunks == 3

\* a text is the sequence of its characters
ClosingTag == <<"<", "/", "a", ">">>

\* a tool-call delta; an empty id, type, name or arguments is one the fragment
\* does not carry (None or missing)
ToolCallDelta(index, id, type, name, arguments) ==
    [index |-> index, id |-> id, type |-> type,
     function |-> [name |-> name, arguments |-> arguments]]

\* chunk.choices[0]: its finish_reason attribute ("absent": no such attribute,
\* "null": None) and its delta (has_delta FALSE: None)
NoChoice == [present |-> FALSE, finish_reason |-> "absent", has_delta |-> FALSE,
             role |-> "", tool_calls |-> <<>>, content |-> <<>>]
Choice(finish_reason, tool_calls, content) ==
    [present |-> TRUE, finish_reason |-> finish_reason, has_delta |-> TRUE,
     role |-> "assistant", tool_calls |-> tool_calls, content |-> content]

\* a fragment of the stream; model, id and created are "absent" (no such
\* attribute), "null" (None) or a value
Chunk(model, id, created, usage, choice) ==
    [none |-> FALSE, model |-> model, id |-> id, created |-> created,
     usage |-> usage, choice |-> choice]
Bare(choice) == Chunk("absent", "absent", "absent", NoUsage, choice)

Usage(prompt_tokens, completion_tokens) ==
    [present |-> TRUE, prompt_tokens |-> prompt_tokens,
     completion_tokens |-> completion_tokens]

Chunks ==
    { [Bare(NoChoice) EXCEPT !.none = TRUE],
      Chunk("m1", "r1", "t1", Usage(1, 1), NoChoice),
      Chunk("null", "null", "null", Usage(3, 2), NoChoice),
      Bare([Choice("stop", <<>>, <<>>) EXCEPT !.has_delta = FALSE]),
      Chunk("m2", "r2", "t2", NoUsage, Choice("null", <<>>, <<"a">>)),
      Bare(Choice("absent", <<ToolCallDelta(0, "call_a", "function", "bash", <<"x">>)>>, <<>>)),
      Bare(Choice("absent", <<ToolCallDelta(0, "call_b", "", "other", <<"y">>)>>, <<>>)),
      Bare(Choice("length", <<ToolCallDelta(1, "call_c", "function", "bash", <<"z">>),
                              ToolCallDelta(0, "", "", "", <<"w">>)>>, <<>>)),
      Bare(Choice("absent", <<>>, ClosingTag)),
      Bare(Choice("absent", <<>>, ClosingTag \o ClosingTag)),
      Bare(Choice("absent", <<>>, <<"<", "/">>)),
      Bare(Choice("absent", <<>>, <<"a", ">">>)) }

\* the stream-guard settings of LitellmModelConfig tried
StreamGuards ==
    { [stream_guard_enabled |-> e, stream_guard_window |-> w,
       stream_guard_tag_threshold |-> t] :
        <<e, w, t>> \in { <<TRUE, 200, 2>>, <<TRUE, 9, 2>>, <<TRUE, 200, 1>>,
                          <<TRUE, 200, 3>>, <<FALSE, 200, 2>>, <<TRUE, 0, 2>>,
                          <<TRUE, 200, 0>> } }

RECURSIVE StreamsOf(_)
\* the streams of exactly n fragments
StreamsOf(n) ==
    IF n = 0 THEN { <<>> }
    ELSE { Append(st, c) : st \in StreamsOf(n - 1), c \in Chunks }

Streams == UNION { StreamsOf(n) : n \in 0..MaxChunks }

\* the locals of _reconstruct_stream_response before the first fragment
StreamLocals(st) ==
    [pc |-> "loop", stream |-> st, next |-> 1, content_text |-> <<>>,
     tool_calls_by_index |-> <<>>, usage |-> NoUsage, finish_reason |-> "null",
     role |-> "assistant", model |-> "null", response_id |-> "null",
     created |-> "null", warnings |-> 0, broke |-> FALSE,
     response |-> [built |-> FALSE]]

\* a client about to reconstruct a stream
StreamInit ==
    /\ config \in { [model_class |-> "litellm", model |-> g] : g \in StreamGuards }
    /\ stream_state \in { StreamLocals(st) : st \in Streams }
    /\ side_effect = "none"
    /\ resolved = 0
    /\ _live_trajectory_path = FALSE
    /\ Constructed
    /\ NoCaller
    /\ normalization = NoNormalization
    /\ linking = NoLinking
    /\ NoStore

\* getattr(obj, name, current): the attribute when the object has it, even when
\* it is None, else the current value
getattr(value, current) == IF value = "absent" THEN current ELSE value

\* the entry of an index not seen before
NoEntry == [id |-> "", type |-> "", function |-> [name |-> "", arguments |-> <<>>]]

\* the accumulation replacing the arguments of an index by the latest delta
_accumulate_tool_call_overwriting(by_index, tool_call) ==
    LET index == tool_call.index
        entry == IF index \in DOMAIN by_index THEN by_index[index] ELSE NoEntry
        new == [id |-> IF tool_call.id # "" THEN tool_call.id ELSE entry.id,
                type |-> IF tool_call.type # "" THEN tool_call.type ELSE entry.type,
                function |->
                   [name |-> IF tool_call.function.name # ""
                             THEN tool_call.function.name ELSE entry.function.name,
                    arguments |-> IF tool_call.function.arguments # <<>>
                                  THEN tool_call.function.arguments
                                  ELSE entry.function.arguments]]
    IN  (index :> new) @@ by_index

\* the body of the loop of _accumulate_tool_calls: the entry of the delta's index
\* takes every non-empty id, type and name, and its arguments grow by the delta's
_accumulate_tool_call(by_index, tool_call) ==
    LET index == tool_call.index
        entry == IF index \in DOMAIN by_index THEN by_index[index] ELSE NoEntry
        new == [id |-> IF tool_call.id # "" THEN tool_call.id ELSE entry.id,
                type |-> IF tool_call.type # "" THEN tool_call.type ELSE entry.type,
                function |->
                   [name |-> IF tool_call.function.name # ""
                             THEN tool_call.function.name ELSE entry.function.name,
                    arguments |-> entry.function.arguments \o tool_call.function.arguments]]
    IN  (index :> new) @@ by_index

RECURSIVE _accumulate_tool_calls(_, _)
\* _accumulate_tool_calls: the deltas of a fragment, in their order
_accumulate_tool_calls(by_index, delta_tool_calls) ==
    IF delta_tool_calls = <<>> THEN by_index
    ELSE _accumulate_tool_calls(_accumulate_tool_call(by_index, Head(delta_tool_calls)),
                                Tail(delta_tool_calls))

RECURSIVE sorted(_)
\* sorted(indices) as a sequence
sorted(indices) ==
    IF indices = {} THEN <<>>
    ELSE LET least == CHOOSE i \in indices : \A j \in indices : i <= j
         IN  <<least>> \o sorted(indices \ {least})

\* _build_tool_calls: the entries in ascending order of their index
_build_tool_calls(by_index) ==
    LET order == sorted(DOMAIN by_index)
    IN  [k \in 1..Len(order) |-> by_index[order[k]]]

\* content[-window_size:] if len(content) > window_size else content
Window(content, window_size) ==
    IF Len(content) > window_size
    THEN SubSeq(content, Len(content) - window_size + 1, Len(content))
    ELSE content

\* CLOSING_TAG_RE = "</[^>]+>" tried at position i: the position of the ">" that
\* ends the match, or 0 when there is no match here
MatchEnd(text, i) ==
    IF i + 3 <= Len(text) /\ text[i] = "<" /\ text[i + 1] = "/" /\ text[i + 2] # ">"
    THEN LET ends == {j \in (i + 3)..Len(text) : text[j] = ">"}
         IN  IF ends = {} THEN 0 ELSE CHOOSE j \in ends : \A k \in ends : j <= k
    ELSE 0

RECURSIVE finditer(_, _)
\* CLOSING_TAG_RE.finditer(text) from position i on: the matches from left to
\* right, none overlapping, with start as Python counts it (from 0)
finditer(text, i) ==
    IF i > Len(text) THEN <<>>
    ELSE IF MatchEnd(text, i) # 0
         THEN <<[start |-> i - 1, end |-> MatchEnd(text, i)]>>
              \o finditer(text, MatchEnd(text, i) + 1)
         ELSE finditer(text, i + 1)

\* the guard triggering only above the threshold
_should_trigger_stream_guard_above(cfg, content) ==
    IF ~cfg.stream_guard_enabled THEN FALSE
    ELSE IF cfg.stream_guard_window <= 0 \/ cfg.stream_guard_tag_threshold <= 0 THEN FALSE
    ELSE Len(finditer(Window(content, cfg.stream_guard_window), 1))
            > cfg.stream_guard_tag_threshold

\* the guard not reading stream_guard_enabled
_should_trigger_stream_guard_always(cfg, content) ==
    IF cfg.stream_guard_window <= 0 \/ cfg.stream_guard_tag_threshold <= 0 THEN FALSE
    ELSE Len(finditer(Window(content, cfg.stream_guard_window), 1))
            >= cfg.stream_guard_tag_threshold

_should_trigger_stream_guard(cfg, content) ==
    IF ~cfg.stream_guard_enabled THEN FALSE
    ELSE IF cfg.stream_guard_window <= 0 \/ cfg.stream_guard_tag_threshold <= 0 THEN FALSE
    ELSE Len(finditer(Window(content, cfg.stream_guard_window), 1))
            >= cfg.stream_guard_tag_threshold

\* the truncation cutting after the threshold-th match
_truncate_stream_content_past(cfg, content) ==
    LET window == Window(content, cfg.stream_guard_window)
        matches == finditer(window, 1)
        threshold == cfg.stream_guard_tag_threshold
    IN  IF cfg.stream_guard_window <= 0 \/ threshold <= 0 THEN content
        ELSE IF Len(matches) < threshold THEN content
        ELSE SubSeq(content, 1, Len(content) - Len(window) + matches[threshold].end)

\* _truncate_stream_content: content[:cutoff], the cutoff being the start of the
\* threshold-th match of the window
_truncate_stream_content(cfg, content) ==
    LET window == Window(content, cfg.stream_guard_window)
        matches == finditer(window, 1)
        threshold == cfg.stream_guard_tag_threshold
    IN  IF cfg.stream_guard_window <= 0 \/ threshold <= 0 THEN content
        ELSE IF Len(matches) < threshold THEN content
        ELSE SubSeq(content, 1, Len(content) - Len(window) + matches[threshold].start)

\* the locals after the loop body has run on one fragment
Consume(cfg, l, chunk) ==
    LET pulled == [l EXCEPT !.next = @ + 1]
        meta == [pulled EXCEPT !.model = getattr(chunk.model, @),
                               !.response_id = getattr(chunk.id, @),
                               !.created = getattr(chunk.created, @),
                               !.usage = IF chunk.usage.present THEN chunk.usage ELSE @]
        fin == [meta EXCEPT !.finish_reason = getattr(chunk.choice.finish_reason, @)]
        acc == [fin EXCEPT !.role = IF chunk.choice.role # "" THEN chunk.choice.role ELSE @,
                           !.tool_calls_by_index =
                               _accumulate_tool_calls(@, chunk.choice.tool_calls)]
        text == l.content_text \o chunk.choice.content
    IN  IF chunk.none THEN pulled
        ELSE IF ~chunk.choice.present THEN meta
        ELSE IF ~chunk.choice.has_delta THEN fin
        ELSE IF chunk.choice.content = <<>> THEN acc
        ELSE IF _should_trigger_stream_guard(cfg, text)
             THEN [acc EXCEPT !.content_text = _truncate_stream_content(cfg, text),
                              !.warnings = @ + 1, !.broke = TRUE, !.pc = "build"]
             ELSE [acc EXCEPT !.content_text = text]

\* _reconstruct_stream_response: one iteration of `for chunk in stream`
_reconstruct_stream_response ==
    /\ stream_state.pc = "loop"
    /\ stream_state.next <= Len(stream_state.stream)
    /\ stream_state' = Consume(config.model, stream_state,
                               stream_state.stream[stream_state.next])
    /\ UNCHANGED <<config, pc, runs, messages, n_calls, cost, exc, result, n_steps,
                   n_saves, saved, global_cost, q, side_effect, n_returned, n_raised,
                   cost_returned, format_errors>>
    /\ UNCHANGED <<resolved, context_window_max, _live_trajectory_path, live, live_exists, warnings, sent>>
    /\ UNCHANGED <<context_left_percent, n_loads, instance, traj, preds, progress,
                   normalization, linking>>
    /\ UNCHANGED <<live_map, map_call>>

\* _reconstruct_stream_response after the loop, left by exhaustion of the stream
\* or by the guard's break: build the tool calls and the response
_reconstruct_stream_response_return ==
    /\ \/ stream_state.pc = "loop" /\ stream_state.next > Len(stream_state.stream)
       \/ stream_state.pc = "build"
    /\ stream_state' =
          [stream_state EXCEPT
             !.pc = "done",
             !.response =
                [built |-> TRUE,
                 role |-> stream_state.role,
                 content |-> [none |-> stream_state.content_text = <<>>,
                              text |-> stream_state.content_text],
                 tool_calls |-> _build_tool_calls(stream_state.tool_calls_by_index),
                 finish_reason |-> stream_state.finish_reason,
                 usage |-> stream_state.usage,
                 model |-> stream_state.model,
                 id |-> stream_state.response_id,
                 created |-> stream_state.created]]
    /\ UNCHANGED <<config, pc, runs, messages, n_calls, cost, exc, result, n_steps,
                   n_saves, saved, global_cost, q, side_effect, n_returned, n_raised,
                   cost_returned, format_errors>>
    /\ UNCHANGED <<resolved, context_window_max, _live_trajectory_path, live, live_exists, warnings, sent>>
    /\ UNCHANGED <<context_left_percent, n_loads, instance, traj, preds, progress,
                   normalization, linking>>
    /\ UNCHANGED <<live_map, map_call>>

StreamNext ==
    \/ _reconstruct_stream_response
    \/ _reconstruct_stream_response_return

StreamSpec == StreamInit /\ [][StreamNext]_vars

----
(* models/litellm_model.py: _query_streaming around the reconstruction *)

\* a streaming client, with and without usage inclusion, about to reconstruct
\* the stream of its litellm.completion(stream=True) call
StreamingQueryInit ==
    /\ config \in { [model_class |-> "litellm",
                     model |-> [stream_guard_enabled |-> g.stream_guard_enabled,
                                stream_guard_window |-> g.stream_guard_window,
                                stream_guard_tag_threshold |-> g.stream_guard_tag_threshold,
                                stream_include_usage |-> u]] :
                        g \in StreamGuards, u \in BOOLEAN }
    /\ stream_state \in { StreamLocals(st) : st \in Streams }
    /\ side_effect = "none"
    /\ resolved = 0
    /\ _live_trajectory_path = FALSE
    /\ Constructed
    /\ NoCaller
    /\ normalization = NoNormalization
    /\ linking = NoLinking
    /\ NoStore

\* _query_streaming after _reconstruct_stream_response: the response is
\* returned, or thrown away for a call of _query_non_streaming
_query_streaming_return ==
    /\ stream_state.pc = "done"
    /\ stream_state' =
          [stream_state EXCEPT
             !.pc = IF NeedsFallback(config.model, stream_state.response.usage)
                    THEN "_query_non_streaming"
                    ELSE "returned"]
    /\ UNCHANGED <<config, pc, runs, messages, n_calls, cost, exc, result, n_steps,
                   n_saves, saved, global_cost, q, side_effect, n_returned, n_raised,
                   cost_returned, format_errors>>
    /\ UNCHANGED <<resolved, context_window_max, _live_trajectory_path, live, live_exists, warnings, sent>>
    /\ UNCHANGED <<context_left_percent, n_loads, instance, traj, preds, progress,
                   normalization, linking>>
    /\ UNCHANGED <<live_map, map_call>>

StreamingQueryNext ==
    \/ _reconstruct_stream_response
    \/ _reconstruct_stream_response_return
    \/ _query_streaming_return

StreamingQuerySpec == StreamingQueryInit /\ [][StreamingQueryNext]_vars

----
(* run/benchmarks/swebench.py and swebench_single.py: the callers of run() *)

\* what an earlier attempt at the instance left at the live-log destination
StaleLine == [json |-> [role |-> "assistant", content |-> "stale", tool_calls |-> "none",
                        extra |-> [NoExtra EXCEPT !.kind = "stale"]]]

\* the callers that set a live-log destination: the batch runner, the
\* single-instance runner, and a program calling set_live_trajectory_path and
\* run() on an agent itself
Callers == {"process_instance", "main", "direct"}

\* what get_sb_environment does: return the environment or fail
EnvironmentOutcomes == {"ok", "DockerError"}

InstanceLocals(caller, at) ==
    [caller |-> caller, pc |-> at, agent |-> FALSE, exit_status |-> "None",
     result |-> "None", traceback |-> FALSE, in_flight |-> "none"]

\* a caller about to start on an instance, an earlier attempt having left its
\* files or not; the direct caller holds a freshly constructed agent
InstanceInit ==
    /\ \E caller \in Callers :
         /\ instance = IF caller = "direct"
                        THEN [InstanceLocals(caller, "set_live") EXCEPT !.agent = TRUE]
                        ELSE InstanceLocals(caller, "start")
         /\ config \in IF caller = "direct"
                        THEN {c \in LiveConfigs : c.model_class = "slow_exit"}
                        ELSE LiveConfigs
    /\ \E stale \in BOOLEAN :
         /\ live = IF stale THEN <<StaleLine>> ELSE <<>>
         /\ live_exists = stale
         /\ traj = IF stale THEN [exists |-> TRUE, exit_status |-> "stale",
                                   submission |-> "stale", traceback |-> FALSE]
                    ELSE NoFile
         /\ preds = IF stale THEN [exists |-> TRUE, result |-> "stale"] ELSE NoFile
    /\ progress = <<>>
    /\ normalization = NoNormalization
    /\ linking = NoLinking
    /\ NoStore
    /\ side_effect \in ToolPayloads
    /\ resolved = 0
    /\ _live_trajectory_path = FALSE
    /\ stream_state = NoStream
    /\ _patched_init

\* the variables of the agent and its model client
agent_vars == <<config, pc, runs, messages, n_calls, cost, exc, result, n_steps, n_saves,
                saved, global_cost, q, side_effect, n_returned, n_raised, cost_returned,
                format_errors, resolved, context_window_max, sent, stream_state,
                context_left_percent, n_loads>>

\* process_instance up to the try block: the instance's entry in preds.json, its
\* final trajectory and its live file are removed; the progress manager is told
process_instance ==
    /\ instance.caller = "process_instance"
    /\ instance.pc = "start"
    /\ preds' = NoFile
    /\ traj' = NoFile
    /\ live' = <<>>
    /\ live_exists' = FALSE
    /\ progress' = Append(progress, [event |-> "start", status |-> ""])
    /\ UNCHANGED <<normalization, linking>>
    /\ instance' = [instance EXCEPT !.pc = "try"]
    /\ UNCHANGED agent_vars
    /\ UNCHANGED <<_live_trajectory_path, warnings>>
    /\ UNCHANGED <<live_map, map_call>>

\* the try block up to the agent's construction; a failure of
\* get_sb_environment leaves the block with no agent
process_instance_try ==
    /\ instance.caller = "process_instance"
    /\ instance.pc = "try"
    /\ \E o \in EnvironmentOutcomes :
         instance' = IF o = "ok"
                     THEN [instance EXCEPT !.agent = TRUE, !.pc = "set_live"]
                     ELSE [instance EXCEPT !.in_flight = o, !.pc = "except"]
    /\ UNCHANGED agent_vars
    /\ UNCHANGED <<_live_trajectory_path, live, live_exists, warnings, traj, preds, progress,
                   normalization, linking>>
    /\ UNCHANGED <<live_map, map_call>>

\* main of the single-instance runner up to the agent's construction
main ==
    /\ instance.caller = "main"
    /\ instance.pc = "start"
    /\ instance' = [instance EXCEPT !.agent = TRUE, !.pc = "set_live"]
    /\ UNCHANGED agent_vars
    /\ UNCHANGED <<_live_trajectory_path, live, live_exists, warnings, traj, preds, progress,
                   normalization, linking>>
    /\ UNCHANGED <<live_map, map_call>>

\* set_live_trajectory_path(path): set the destination and remove the file
\* there; a failure to do so is logged as a warning and swallowed
_set_live_trajectory_path ==
    /\ instance.pc = "set_live"
    /\ _live_trajectory_path' = TRUE
    /\ \/ /\ live' = <<>>
          /\ live_exists' = FALSE
          /\ UNCHANGED warnings
       \/ /\ warnings' = warnings + 1
          /\ UNCHANGED <<live, live_exists>>
    /\ instance' = [instance EXCEPT !.pc = "run"]
    /\ UNCHANGED agent_vars
    /\ UNCHANGED <<traj, preds, progress, normalization, linking>>
    /\ UNCHANGED <<live_map, map_call>>

\* process_instance after agent.run(task) returned: the exit status and the
\* submission are read from the returned info
process_instance_returned ==
    /\ instance.caller = "process_instance"
    /\ instance.pc = "run"
    /\ pc = "returned"
    /\ instance' = [instance EXCEPT !.exit_status = result.exit_status,
                                    !.result = result.submission,
                                    !.pc = "save"]
    /\ UNCHANGED agent_vars
    /\ UNCHANGED <<_live_trajectory_path, live, live_exists, warnings, traj, preds, progress,
                   normalization, linking>>
    /\ UNCHANGED <<live_map, map_call>>

\* the except clause recording the exception without its traceback
process_instance_except_no_traceback ==
    /\ instance.caller = "process_instance"
    /\ \/ instance.pc = "run" /\ pc = "raised"
       \/ instance.pc = "except"
    /\ LET e == IF instance.pc = "except" THEN instance.in_flight ELSE exc.type
       IN  instance' = IF e \in BaseExceptions
                       THEN [instance EXCEPT !.in_flight = e, !.pc = "save"]
                       ELSE [instance EXCEPT !.exit_status = e, !.result = "",
                                             !.in_flight = "none", !.pc = "save"]
    /\ UNCHANGED agent_vars
    /\ UNCHANGED <<_live_trajectory_path, live, live_exists, warnings, traj, preds, progress,
                   normalization, linking>>
    /\ UNCHANGED <<live_map, map_call>>

\* process_instance when the try block was left by an exception: `except
\* Exception` records its type name, an empty submission and the traceback; a
\* BaseException matches no clause and stays in flight
process_instance_except ==
    /\ instance.caller = "process_instance"
    /\ \/ instance.pc = "run" /\ pc = "raised"
       \/ instance.pc = "except"
    /\ LET e == IF instance.pc = "except" THEN instance.in_flight ELSE exc.type
       IN  instance' = IF e \in BaseExceptions
                       THEN [instance EXCEPT !.in_flight = e, !.pc = "save"]
                       ELSE [instance EXCEPT !.exit_status = e, !.result = "",
                                             !.traceback = TRUE, !.in_flight = "none",
                                             !.pc = "save"]
    /\ UNCHANGED agent_vars
    /\ UNCHANGED <<_live_trajectory_path, live, live_exists, warnings, traj, preds, progress,
                   normalization, linking>>
    /\ UNCHANGED <<live_map, map_call>>

\* the finally clause removing the live file where it should save the final
\* trajectory
process_instance_save_unlinking ==
    /\ instance.caller = "process_instance"
    /\ instance.pc = "save"
    /\ IF instance.agent
       THEN /\ live' = <<>>
            /\ live_exists' = FALSE
       ELSE UNCHANGED <<live, live_exists>>
    /\ instance' = [instance EXCEPT !.pc = "unlink"]
    /\ UNCHANGED agent_vars
    /\ UNCHANGED <<_live_trajectory_path, warnings, traj, preds, progress, normalization, linking>>
    /\ UNCHANGED <<live_map, map_call>>

\* the finally clause: with an agent, agent.save(traj_path, info) writes the
\* final trajectory
process_instance_save ==
    /\ instance.caller = "process_instance"
    /\ instance.pc = "save"
    /\ traj' = IF instance.agent
               THEN [exists |-> TRUE, exit_status |-> instance.exit_status,
                     submission |-> instance.result, traceback |-> instance.traceback]
               ELSE traj
    /\ instance' = [instance EXCEPT !.pc = "unlink"]
    /\ UNCHANGED agent_vars
    /\ UNCHANGED <<_live_trajectory_path, live, live_exists, warnings, preds, progress,
                   normalization, linking>>
    /\ UNCHANGED <<live_map, map_call>>

\* the finally clause, after the save: with an agent, the live file is removed
process_instance_unlink ==
    /\ instance.caller = "process_instance"
    /\ instance.pc = "unlink"
    /\ IF instance.agent
       THEN /\ live' = <<>>
            /\ live_exists' = FALSE
       ELSE UNCHANGED <<live, live_exists>>
    /\ instance' = [instance EXCEPT !.pc = "report"]
    /\ UNCHANGED agent_vars
    /\ UNCHANGED <<_live_trajectory_path, warnings, traj, preds, progress, normalization, linking>>
    /\ UNCHANGED <<live_map, map_call>>

\* the end of the finally clause: update_preds_file and on_instance_end; an
\* exception still in flight then leaves process_instance
process_instance_report ==
    /\ instance.caller = "process_instance"
    /\ instance.pc = "report"
    /\ preds' = [exists |-> TRUE, result |-> instance.result]
    /\ progress' = Append(progress, [event |-> "end", status |-> instance.exit_status])
    /\ UNCHANGED <<normalization, linking>>
    /\ instance' = [instance EXCEPT !.pc = IF instance.in_flight = "none"
                                           THEN "done" ELSE "escaped"]
    /\ UNCHANGED agent_vars
    /\ UNCHANGED <<_live_trajectory_path, live, live_exists, warnings, traj>>
    /\ UNCHANGED <<live_map, map_call>>

\* main after agent.run(...): it returns, or the exception of run() leaves it
main_return ==
    /\ instance.caller = "main"
    /\ instance.pc = "run"
    /\ pc \in {"returned", "raised"}
    /\ instance' = IF pc = "returned"
                    THEN [instance EXCEPT !.pc = "done"]
                    ELSE [instance EXCEPT !.in_flight = exc.type, !.pc = "escaped"]
    /\ UNCHANGED agent_vars
    /\ UNCHANGED <<_live_trajectory_path, live, live_exists, warnings, traj, preds, progress,
                   normalization, linking>>
    /\ UNCHANGED <<live_map, map_call>>

Next ==
    \/ _patched_run
    \/ _patched_query
    \/ _patched_query_resume
    \/ execute_actions
    \/ _patched_run_except
    \/ _patched_run_finally
    \/ _patched_run_check
    \/ SlowExitModel_query
    \/ _query_non_streaming
    \/ _query_streaming
    \/ query_calculate_cost
    \/ query_parse_actions

Spec == Init /\ [][Next]_vars

\* the agents with a positive step limit, a client that leaves tool_choice
\* unset and checks its costs
StepLimitedInit ==
    /\ Init
    /\ config.step_limit > 0
    /\ config.model.tool_choice = "unset"
    /\ config.model.cost_tracking = "default"

\* the same program with a positive step limit; run() is a sequential program
\* whose every call returns or raises, so a step that can be taken is taken
StepLimitedSpec == StepLimitedInit /\ [][Next]_vars /\ WF_vars(Next)

\* the agent around a _UsageModel
TrackNext ==
    \/ _patched_run
    \/ _patched_query
    \/ _patched_query_resume
    \/ execute_actions
    \/ _patched_run_except
    \/ _patched_run_finally
    \/ _patched_run_check
    \/ _UsageModel_query

TrackSpec == TrackInit /\ [][TrackNext]_vars

\* the callers and the agent they drive
InstanceNext ==
    \/ process_instance
    \/ process_instance_try
    \/ main
    \/ _set_live_trajectory_path
    \/ process_instance_returned
    \/ process_instance_except
    \/ process_instance_save
    \/ process_instance_unlink
    \/ process_instance_report
    \/ main_return
    \/ Next

InstanceSpec == InstanceInit /\ [][InstanceNext]_vars

\* the same program run with a live-log destination set
LiveSpec == LiveInit /\ [][Next]_vars


----
(* models/context_window.py: normalize_model_name on model names *)

\* the parts model names are put together from: a letter of either case, a
\* blank, a provider segment, the suffixes of _SUFFIXES, the two date forms, a
\* quantization suffix, a q-suffix and a tail for it
NameParts ==
    { <<"a">>, <<"G">>, <<" ">>, <<"o", "/">>,
      <<"-", "p", "r", "e", "v", "i", "e", "w">>,
      <<"-", "b", "e", "t", "a">>,
      <<"-", "l", "a", "t", "e", "s", "t">>,
      <<"-", "2", "0", "2", "4", "0", "1", "0", "1">>,
      <<"-", "2", "0", "2", "4", "-", "0", "1", "-", "0", "1">>,
      <<"-", "f", "p", "8">>,
      <<"-", "q", "4">>,
      <<"_", "k">> }

\* how many parts a model name has at most
MaxParts == 4

\* the parts of a name, one after the other
RECURSIVE Joined(_)
Joined(parts) == IF parts = <<>> THEN <<>> ELSE Head(parts) \o Joined(Tail(parts))

ModelNames == { Joined(parts) : parts \in UNION { [1..n -> NameParts] : n \in 1..MaxParts } }

NormInit ==
    /\ config \in { c \in TrackConfigs : c.model_name = "gpt-4o" }
    /\ side_effect = "none"
    /\ resolved = 0
    /\ _live_trajectory_path = FALSE
    /\ stream_state = NoStream
    /\ Constructed
    /\ NoCaller
    /\ \E name \in ModelNames : normalization = [NoNormalization EXCEPT !.model_name = name]
    /\ linking = NoLinking
    /\ NoStore

\* normalize_model_name(model_name)
Normalize ==
    /\ normalization.calls = 0
    /\ normalization' = [normalization EXCEPT
                            !.normalized = normalize_model_name(normalization.model_name),
                            !.calls = 1]
    /\ UNCHANGED <<agent_vars, _live_trajectory_path, live, live_exists, warnings,
                   instance, traj, preds, progress, linking>>
    /\ UNCHANGED <<live_map, map_call>>

\* normalize_model_name on a name that it returned
NormalizeAgain ==
    /\ normalization.calls = 1
    /\ normalization' = [normalization EXCEPT
                            !.again = normalize_model_name(normalization.normalized),
                            !.calls = 2]
    /\ UNCHANGED <<agent_vars, _live_trajectory_path, live, live_exists, warnings,
                   instance, traj, preds, progress, linking>>
    /\ UNCHANGED <<live_map, map_call>>

NormNext ==
    \/ Normalize
    \/ NormalizeAgain

NormSpec == NormInit /\ [][NormNext]_vars

----
(* models/context_window.py: lookup_context_window on names and maps *)

\* the keys of the maps looked into: a bare name, names it is a prefix of, the
\* same name with a suffix, and a key that normalizes to the empty name
LookupKeys ==
    { <<"a">>, <<"a", "g">>, <<"a", "g", "a">>,
      <<"a", "-", "l", "a", "t", "e", "s", "t">>, <<"o", "/">> }

\* the names looked up
LookupNames ==
    { <<"a">>, <<"o", "/", "A", "-", "p", "r", "e", "v", "i", "e", "w">>,
      <<"a", "g">>, <<"a", "g", "g">>, <<"a", "g", "a", "-", "f", "p", "8">>,
      <<"g">>, <<"-", "l", "a", "t", "e", "s", "t">> }

\* the budgets stored
LookupValues == {1, 2}

\* how many entries a map has at most
MaxEntries == 3

\* the maps looked into, with their entries in the order a dict yields them
LookupMaps == FilesOf(MaxEntries, LookupKeys, LookupValues)

\* lookup_context_window is about to be called with a name and a map
LookupInit ==
    /\ config \in { c \in TrackConfigs : c.model_name = "gpt-4o" }
    /\ side_effect = "none"
    /\ resolved = 0
    /\ _live_trajectory_path = FALSE
    /\ stream_state = NoStream
    /\ Constructed
    /\ NoCaller
    /\ normalization = NoNormalization
    /\ linking = NoLinking
    /\ live_map = [exists |-> FALSE, data |-> <<>>]
    /\ \E name \in LookupNames, m \in LookupMaps :
         map_call = [pc |-> "lookup", model_name |-> name, context_map |-> m,
                     returned |-> NoMatch]

\* lookup_context_window(model_name, context_map)
Lookup ==
    /\ map_call.pc = "lookup"
    /\ map_call' = [map_call EXCEPT
                      !.pc = "returned",
                      !.returned = lookup_context_window(map_call.model_name,
                                                         map_call.context_map)]
    /\ UNCHANGED <<agent_vars, _live_trajectory_path, live, live_exists, warnings,
                   instance, traj, preds, progress, normalization, linking, live_map>>

LookupSpec == LookupInit /\ [][Lookup]_vars

----
(* models/context_window.py: the live map file under load, update and resolve *)

\* the built-in map that is copied to the live path when there is no live
\* file: model names with positive int budgets
Seed == << [key |-> Yaml("str", 0, <<"a">>), value |-> Yaml("int", 2, <<>>)] >>

\* a process outside context_window.py
Idle ==
    [pc |-> "idle", op |-> "none", model_name |-> <<>>, max_tokens |-> 0,
     context_map |-> <<>>, raised |-> "none", key |-> <<>>]

\* the positions between two calls
Rest == {"idle", "returned", "raised"}

\* load_context_window_map() is called
load_call(p) ==
    /\ map_call[p].pc \in Rest
    /\ map_call' = [map_call EXCEPT ![p] = [Idle EXCEPT !.pc = "ensure",
                                                        !.op = "load"]]
    /\ UNCHANGED <<agent_vars, _live_trajectory_path, live, live_exists, warnings,
                   instance, traj, preds, progress, normalization, linking, live_map>>

\* update_context_window_map(model_name, max_tokens) is called; it starts with
\* load_context_window_map
update_call(p, name, tokens) ==
    /\ map_call[p].pc \in Rest
    /\ map_call' = [map_call EXCEPT ![p] = [Idle EXCEPT !.pc = "ensure",
                                                        !.op = "update",
                                                        !.model_name = name,
                                                        !.max_tokens = tokens]]
    /\ UNCHANGED <<agent_vars, _live_trajectory_path, live, live_exists, warnings,
                   instance, traj, preds, progress, normalization, linking, live_map>>

\* _resolve_context_window_max of a run whose model has the given name and no
\* budget yet; it starts with load_context_window_map
resolve_call(p, name) ==
    /\ map_call[p].pc \in Rest
    /\ map_call' = [map_call EXCEPT ![p] = [Idle EXCEPT !.pc = "ensure",
                                                        !.op = "resolve",
                                                        !.model_name = name]]
    /\ UNCHANGED <<agent_vars, _live_trajectory_path, live, live_exists, warnings,
                   instance, traj, preds, progress, normalization, linking, live_map>>

\* ensure_live_context_window_map up to its copy: with a live file it returns,
\* without one it goes on to shutil.copyfile (the seed file is there)
ensure_live_context_window_map(p) ==
    /\ map_call[p].pc = "ensure"
    /\ map_call' = [map_call EXCEPT
                      ![p].pc = IF live_map.exists THEN "read_text" ELSE "copyfile"]
    /\ UNCHANGED <<agent_vars, _live_trajectory_path, live, live_exists, warnings,
                   instance, traj, preds, progress, normalization, linking, live_map>>

\* shutil.copyfile opens the live path for writing: the file is there and empty
copyfile_open(p) ==
    /\ map_call[p].pc = "copyfile"
    /\ live_map' = [exists |-> TRUE, data |-> <<>>]
    /\ map_call' = [map_call EXCEPT ![p].pc = "copying"]
    /\ UNCHANGED <<agent_vars, _live_trajectory_path, live, live_exists, warnings,
                   instance, traj, preds, progress, normalization, linking>>

\* shutil.copyfile writes the seed into the live file
copyfile_write(p) ==
    /\ map_call[p].pc = "copying"
    /\ live_map' = [exists |-> TRUE, data |-> Seed]
    /\ map_call' = [map_call EXCEPT ![p].pc = "read_text"]
    /\ UNCHANGED <<agent_vars, _live_trajectory_path, live, live_exists, warnings,
                   instance, traj, preds, progress, normalization, linking>>

\* load_context_window_map from live_path.read_text() on, and what its caller
\* does with the map up to the next access to the file: load returns it;
\* update sets context_map[normalize_model_name(model_name)] = int(max_tokens)
\* and goes on to save; _resolve_context_window_max looks the name up and, with
\* a budget found under no key that normalizes to the name, calls
\* update_context_window_map(model_name, resolved) (the prompt of the
\* interactive mode returns None)
read_text(p) ==
    /\ map_call[p].pc = "read_text"
    /\ LET loaded == load_context_window_map(live_map.data)
           call == map_call[p]
           found == lookup_context_window(call.model_name, loaded.cleaned)
       IN  map_call' = [map_call EXCEPT ![p] =
             IF loaded.raised # "none"
             THEN [call EXCEPT !.pc = "raised", !.raised = loaded.raised,
                               !.key = loaded.key, !.context_map = <<>>]
             ELSE IF call.op = "load"
             THEN [call EXCEPT !.pc = "returned", !.context_map = loaded.cleaned]
             ELSE IF call.op = "update"
             THEN [call EXCEPT !.pc = "save",
                               !.context_map =
                                   dict_set(loaded.cleaned,
                                            normalize_model_name(call.model_name),
                                            call.max_tokens)]
             ELSE IF /\ found # NoMatch
                     /\ normalize_model_name(call.model_name)
                            \notin NormalizedKeys(loaded.cleaned)
             THEN [call EXCEPT !.pc = "ensure", !.op = "update",
                               !.max_tokens = found,
                               !.context_map = loaded.cleaned]
             ELSE [call EXCEPT !.pc = "returned", !.context_map = loaded.cleaned]]
    /\ UNCHANGED <<agent_vars, _live_trajectory_path, live, live_exists, warnings,
                   instance, traj, preds, progress, normalization, linking, live_map>>

\* save_context_window_map up to the open of live_path.write_text: the live
\* file is there (the load before made sure of it) and is opened for writing,
\* which empties it
write_text_open(p) ==
    /\ map_call[p].pc = "save"
    /\ live_map.exists
    /\ live_map' = [exists |-> TRUE, data |-> <<>>]
    /\ map_call' = [map_call EXCEPT ![p].pc = "writing"]
    /\ UNCHANGED <<agent_vars, _live_trajectory_path, live, live_exists, warnings,
                   instance, traj, preds, progress, normalization, linking>>

\* live_path.write_text writes the dump of the sanitized map and closes
write_text(p) ==
    /\ map_call[p].pc = "writing"
    /\ live_map' = [exists |-> TRUE, data |-> safe_dump(map_call[p].context_map)]
    /\ map_call' = [map_call EXCEPT ![p].pc = "returned"]
    /\ UNCHANGED <<agent_vars, _live_trajectory_path, live, live_exists, warnings,
                   instance, traj, preds, progress, normalization, linking>>

\* what is outside the map file and its callers
NoAgentAtWork ==
    /\ config \in { c \in TrackConfigs : c.model_name = "gpt-4o" }
    /\ side_effect = "none"
    /\ resolved = 0
    /\ _live_trajectory_path = FALSE
    /\ stream_state = NoStream
    /\ Constructed
    /\ NoCaller
    /\ normalization = NoNormalization
    /\ linking = NoLinking

\* the keys of a hand-edited live file: model names, and the key null
FileKeys ==
    { Yaml("str", 0, <<"a">>), Yaml("str", 0, <<"b">>), Yaml("None", 0, <<>>) }

\* the values of a hand-edited live file
FileValues ==
    { Yaml("int", -1, <<>>), Yaml("int", 0, <<>>), Yaml("int", 2, <<>>),
      Yaml("float", 15, <<>>), Yaml("float", 5, <<>>), Yaml("inf", 0, <<>>),
      Yaml("bool", 1, <<>>), Yaml("str", 0, <<"7">>), Yaml("str", 0, <<"x">>),
      Yaml("None", 0, <<>>) }

\* one process loads a live file that is missing or was edited by hand
LoadInit ==
    /\ NoAgentAtWork
    /\ live_map \in { [exists |-> FALSE, data |-> <<>>] } \cup
                    { [exists |-> TRUE, data |-> m] :
                        m \in FilesOf(MaxEntries, FileKeys, FileValues) }
    /\ map_call = [p \in {1} |-> Idle]

LoadNext ==
    \/ \E p \in DOMAIN map_call : load_call(p)
    \/ \E p \in DOMAIN map_call : ensure_live_context_window_map(p)
    \/ \E p \in DOMAIN map_call : copyfile_open(p)
    \/ \E p \in DOMAIN map_call : copyfile_write(p)
    \/ \E p \in DOMAIN map_call : read_text(p)

LoadSpec == LoadInit /\ [][LoadNext]_vars

\* the model names of the runs and the budgets given to update
StoreNames == { <<"a">>, <<"o", "/", "a", "b", "-", "l", "a", "t", "e", "s", "t">> }
StoreTokens == { 0, 3 }

\* the processes that share the live file
MaxProcs == 2

\* several processes load, update and resolve against a live file that is
\* missing or holds positive int budgets
StoreInit ==
    /\ NoAgentAtWork
    /\ live_map \in { [exists |-> FALSE, data |-> <<>>] } \cup
                    { [exists |-> TRUE, data |-> m] :
                        m \in FilesOf(1, { Yaml("str", 0, <<"a">>) },
                                       { Yaml("int", 1, <<>>), Yaml("int", 2, <<>>) }) }
    /\ map_call = [p \in 1..MaxProcs |-> Idle]

StoreNext ==
    \/ \E p \in DOMAIN map_call : load_call(p)
    \/ \E p \in DOMAIN map_call, name \in StoreNames, tokens \in StoreTokens :
          update_call(p, name, tokens)
    \/ \E p \in DOMAIN map_call, name \in StoreNames : resolve_call(p, name)
    \/ \E p \in DOMAIN map_call : ensure_live_context_window_map(p)
    \/ \E p \in DOMAIN map_call : copyfile_open(p)
    \/ \E p \in DOMAIN map_call : copyfile_write(p)
    \/ \E p \in DOMAIN map_call : read_text(p)
    \/ \E p \in DOMAIN map_call : write_text_open(p)
    \/ \E p \in DOMAIN map_call : write_text(p)

StoreSpec == StoreInit /\ [][StoreNext]_vars

----
(* Properties of the run loop *)

\* the positions of run() at which model.query is in progress
QueryPcs == {"backend", "fallback", "cost", "parse", "query_done"}

\* a configured positive ceiling is reached by the given call count or spend
OverBudget(calls, spent) ==
    \/ (config.step_limit > 0 /\ calls >= config.step_limit)
    \/ (config.cost_limit > 0 /\ spent >= config.cost_limit)

IsLimitsExit(m) ==
    /\ m.role = "exit"
    /\ m.extra.exit_status = "LimitsExceeded"

\* C1: a query attempted over budget does not call the model: the exit message
\* with exit_status "LimitsExceeded" and an empty submission is appended instead
\* and run() returns its extra payload; the model is only ever called under
\* budget, and the exit is only ever taken with a positive ceiling reached.
C1_LimitsExceededExit ==
    /\ [](/\ pc \in QueryPcs => ~OverBudget(n_calls - 1, cost)
          /\ exc.type = "LimitsExceeded" =>
                /\ pc = "except"
                /\ OverBudget(n_calls, cost)
                /\ q = NoQuery
          /\ \A i \in 1..Len(messages) :
                IsLimitsExit(messages[i]) =>
                   /\ i = Len(messages)
                   /\ messages[i].extra.submission = ""
                   /\ OverBudget(n_calls, cost)
                   /\ pc \in {"finally", "check", "returned"}
                   /\ pc = "returned" => result = messages[i].extra
          /\ (pc = "returned" /\ result.exit_status = "LimitsExceeded") =>
                (config.step_limit > 0 \/ config.cost_limit > 0))
    /\ [][(pc = "step" /\ OverBudget(n_calls, cost)) =>
             /\ pc' = "except"
             /\ exc'.type = "LimitsExceeded"
             /\ n_calls' = n_calls
             /\ q' = NoQuery]_vars
    /\ [][(pc = "except" /\ exc.type = "LimitsExceeded") =>
             /\ IsLimitsExit(Last(messages'))
             /\ Len(messages') = Len(messages) + 1]_vars

\* a run that made a model call and was then stopped by the cost ceiling
C1_Witness ==
    /\ pc = "returned"
    /\ result.exit_status = "LimitsExceeded"
    /\ result.submission = ""
    /\ config.step_limit = 0
    /\ cost >= config.cost_limit

\* C2: at the loop test, a last message of role "exit" ends the run: run()
\* returns that message's extra payload, takes no further step and appends no
\* further message; a model answering with an exit message ends the run after
\* one model query.
C2_ExitEndsRun ==
    /\ [](/\ pc = "returned" =>
                /\ Last(messages).role = "exit"
                /\ result = Last(messages).extra
          /\ (pc = "step" /\ n_steps > 0) => Last(messages).role # "exit"
          /\ \A i \in 1..(Len(messages) - 1) : messages[i].role # "exit"
          /\ config.model_class = "slow_exit" => n_steps <= 1)
    /\ [][(pc = "check" /\ Last(messages).role = "exit") =>
             /\ pc' = "returned"
             /\ result' = Last(messages).extra
             /\ messages' = messages]_vars
    /\ [][pc = "returned" =>
             \/ messages' = messages /\ n_steps' = n_steps /\ n_calls' = n_calls
             \/ runs' = runs + 1]_vars

\* the first run of an agent whose model answers with an exit message at once
C2_Witness ==
    /\ pc = "returned"
    /\ config.model_class = "slow_exit"
    /\ result.exit_status = "Submitted"
    /\ n_calls = 1
    /\ Len(messages) = 3

\* the positions of run() inside an iteration, before its save
InStepPcs == QueryPcs \cup {"execute", "except", "finally"}

\* C3: every iteration of the run loop is followed by save(output_path), however
\* the step ended: when the loop test is reached and when an exception leaves
\* run(), as many saves as iterations have been made and the saved history is
\* the whole history; for an uncaught exception the saved history ends with the
\* exit message that handle_uncaught_exception recorded for it.
C3_SaveAfterEveryStep ==
    /\ pc \in InStepPcs => n_saves = n_steps - 1
    /\ pc \notin InStepPcs => n_saves = n_steps
    /\ (pc \in {"check", "returned", "raised"}) => saved = messages
    /\ (pc = "step" /\ n_steps > 0) => saved = messages
    /\ pc = "raised" =>
          /\ exc # NoException
          /\ exc.type \notin InterruptAgentFlow
          /\ exc.type \notin BaseExceptions =>
                /\ Last(saved).role = "exit"
                /\ Last(saved).extra.exit_status = exc.type
          /\ exc.type \in BaseExceptions => Last(saved).role # "exit"

\* an external interrupt in the second iteration of a run, after its save
C3_Witness ==
    /\ pc = "raised"
    /\ exc.type = "KeyboardInterrupt"
    /\ n_steps = 2
    /\ n_saves = 2
    /\ saved = messages

----
(* Properties of the model client *)

\* the backend calls of the query in progress that returned a response
OkCalls == {i \in 1..Len(q.calls) : q.calls[i].ok}

\* a query of the plain (non-streaming) client in which no backend call failed
PlainQuery ==
    /\ config.model_class = "litellm"
    /\ ~config.model.use_streaming
    /\ \A i \in 1..Len(q.calls) : q.calls[i].ok

\* model.query has settled on returning a message or on raising FormatError
Settled == pc = "query_done" /\ q.outcome \in {"returned", "FormatError"}

\* the tool-call payload of the i-th response of the backend in this query: the
\* one it gave, or the one it holds ready for the next call
ResponseTools(i) ==
    IF i <= Len(q.calls) THEN q.calls[i].tools ELSE side_effect

RetryEnabled ==
    /\ config.model.retry_missing_tool_calls
    /\ config.model.tool_choice # "required"

NudgeMessage ==
    Message("user", "You must respond using the bash tool.", "none", NoExtra)

\* C4 (as claimed): with the retry flag given and tool choice not forced, a
\* toolless first response followed by a valid reissued one makes query() return
\* after exactly two backend calls, the second with tool_choice "required", with
\* the costs of both calls summed, the caller's history being the original
\* messages, one assistant message and the nudge.
C4_RetrySucceeds ==
    (Settled /\ PlainQuery /\ RetryEnabled
       /\ ResponseTools(1) = "none" /\ ResponseTools(2) = "valid") =>
    /\ q.outcome = "returned"
    /\ Len(q.calls) = 2
    /\ q.calls[2].tool_choice = "required"
    /\ q.message.extra.actions = 1
    /\ global_cost - q.global_before = q.message.extra.cost
    /\ Len(messages) = Len(q.history_before) + 2
    /\ messages[Len(messages) - 1].role = "assistant"
    /\ Last(messages) = NudgeMessage

\* C5 (as claimed): with the retry flag given and tool choice not forced, two
\* toolless responses in a row make query() raise FormatError after exactly two
\* backend calls, the caller's history being what it was before the call.
C5_RetryFails ==
    (Settled /\ PlainQuery /\ RetryEnabled
       /\ ResponseTools(1) = "none" /\ ResponseTools(2) = "none") =>
    /\ q.outcome = "FormatError"
    /\ Len(q.calls) = 2
    /\ messages = q.history_before

\* C6: with the retry flag absent, or tool choice already "required", a response
\* without tool calls makes query() raise FormatError at once: that response is
\* the only one parsed and the last backend call of the query (the only call
\* when no call failed and nothing was streamed), and the caller's history is
\* untouched.
C6_NoRetryWithoutFlag ==
    (pc = "query_done" /\ ~RetryEnabled /\ q.parsed > 0 /\ q.response.tools = "none") =>
    /\ q.outcome = "FormatError"
    /\ q.parsed = 1
    /\ q.response.call = Len(q.calls)
    /\ PlainQuery => Len(q.calls) = 1
    /\ messages = q.history_before
    /\ \A i \in 1..Len(messages) : messages[i] # NudgeMessage

\* tool choice forced to "required", the retry flag given, a toolless response
C6_Witness ==
    /\ pc = "query_done"
    /\ config.model.retry_missing_tool_calls
    /\ config.model.tool_choice = "required"
    /\ PlainQuery
    /\ q.outcome = "FormatError"
    /\ Len(q.calls) = 1
    /\ q.calls[1].tools = "none"

\* C7 (as claimed): once model.query has raised FormatError in a run, the agent
\* loop issues no further model query in that run.
C7_FormatErrorEndsRun ==
    format_errors > 0 => pc \notin QueryPcs

\* the messages a FormatError of query() carries: the debug copy of the reply,
\* flagged as a parse error, then the parser's message
IsFormatErrorTail(history) ==
    /\ Len(history) >= 2
    /\ history[Len(history) - 1].role = "assistant"
    /\ history[Len(history) - 1].extra.parse_error
    /\ Last(history).role = "user"

\* C7 (amended): a FormatError raised by model.query does not end the run: the
\* run loop appends the messages the error carries to the history, saves and
\* goes on to the next step; no run returns or raises with FormatError as its
\* exit status, and no exit message records it.
C7_FormatErrorContinues ==
    /\ [](/\ pc = "returned" => result.exit_status # "FormatError"
          /\ pc = "raised" => exc.type # "FormatError"
          /\ \A i \in 1..Len(messages) : messages[i].extra.exit_status # "FormatError")
    /\ [][(pc = "except" /\ exc.type = "FormatError") =>
             /\ messages' = messages \o exc.messages
             /\ IsFormatErrorTail(messages')
             /\ exc' = NoException
             /\ pc' = "finally"]_vars
    /\ [][(pc = "check" /\ IsFormatErrorTail(messages)) =>
             /\ pc' = "step"
             /\ result' = NotReturned]_vars

\* a model query in progress in a run in which an earlier query raised FormatError
C7_Witness ==
    /\ format_errors = 1
    /\ pc = "parse"
    /\ IsFormatErrorTail(messages)

\* C8 (as claimed): n_calls and the cumulative cost change exactly when a model
\* query returns and its message is appended; a query that raises leaves both
\* as they were.
C8_CountsOnlyReturned ==
    pc \notin QueryPcs => (n_calls = n_returned /\ cost = cost_returned)

\* C8 (amended): n_calls is incremented once for every model query attempted,
\* before model.query is called, whether the query then returns or raises; the
\* cumulative cost is incremented exactly when a query returns and its message
\* is appended, by that message's cost, and a query that raises leaves it
\* unchanged.
C8_CallsCountAttempts ==
    /\ [](/\ n_calls = n_returned + n_raised + (IF pc \in QueryPcs THEN 1 ELSE 0)
          /\ cost = cost_returned)
    /\ [][n_calls' # n_calls =>
             /\ pc = "step"
             /\ pc' = "backend"
             /\ n_calls' = n_calls + 1]_vars
    /\ [][(pc = "query_done" /\ q.outcome = "returned") =>
             /\ messages' = Append(messages, q.message)
             /\ cost' = cost + q.message.extra.cost
             /\ n_calls' = n_calls]_vars
    /\ [][(pc = "query_done" /\ q.outcome # "returned") =>
             /\ messages' = messages
             /\ cost' = cost
             /\ n_calls' = n_calls]_vars

\* a run in which one query raised after the calculator had costed its response,
\* and another returned
C8_Witness ==
    /\ pc = "check"
    /\ n_raised = 1
    /\ n_returned = 1
    /\ n_calls = 2
    /\ global_cost > cost

\* the usage a stream reconstruction ended with is absent or reports a
\* non-positive prompt or completion token count
UsageMissing(usage) ==
    \/ ~usage.present
    \/ usage.prompt_tokens <= 0
    \/ usage.completion_tokens <= 0

\* the i-th backend call of the query in progress is a fallback call: a
\* non-streaming call that directly follows, in the same attempt, a streamed
\* call that returned a response
IsFallbackCall(i) ==
    /\ i > 1
    /\ ~q.calls[i].stream
    /\ q.calls[i - 1].stream
    /\ q.calls[i - 1].ok
    /\ q.calls[i - 1].attempt = q.calls[i].attempt

\* C9: in a streaming query, a streamed response whose usage is missing, with
\* usage inclusion enabled, is followed by exactly one non-streaming call, whose
\* response is the one returned and costed; a streamed response with valid usage,
\* or with usage inclusion disabled, is followed by no further backend call; the
\* cost calculator runs once per query, on the response that is returned.
C9_StreamingFallback ==
    (config.model_class = "litellm" /\ config.model.use_streaming) =>
    /\ \A i \in 1..Len(q.calls) :
          /\ (q.calls[i].stream /\ q.calls[i].ok) =>
                IF config.model.stream_include_usage /\ UsageMissing(q.calls[i].usage)
                THEN /\ i = Len(q.calls) => pc = "fallback"
                     /\ i < Len(q.calls) => IsFallbackCall(i + 1)
                     /\ q.response.call # i
                ELSE /\ i = Len(q.calls)
                     /\ pc \in {"cost", "parse", "query_done"}
                     /\ q.response.call = i
          /\ ~q.calls[i].stream => IsFallbackCall(i)
          /\ (~q.calls[i].stream /\ q.calls[i].ok) =>
                /\ i = Len(q.calls)
                /\ q.response.call = i
    /\ pc = "fallback" =>
          /\ Len(q.calls) > 0
          /\ Last(q.calls).stream
          /\ Last(q.calls).ok
    /\ q.cost_calcs <= 1
    /\ q.cost_calcs = 1 =>
          /\ q.cost_of = Len(q.calls)
          /\ q.cost_of = q.response.call
    /\ (pc = "query_done" /\ q.outcome \in {"returned", "FormatError"}) =>
          /\ q.cost_calcs = 1
          /\ Cardinality({i \in OkCalls : ~q.calls[i].stream}) <= 1
          /\ q.calls[q.cost_of].tools = q.response.tools

\* a streamed response with a zero completion count, the fallback call, and the
\* fallback's response returned with its cost
C9_Witness ==
    /\ pc = "query_done"
    /\ config.model.use_streaming
    /\ q.outcome = "returned"
    /\ Len(q.calls) = 2
    /\ q.calls[1].stream
    /\ q.calls[1].usage.present
    /\ q.calls[1].usage.completion_tokens = 0
    /\ ~q.calls[2].stream
    /\ q.cost_of = 2
    /\ q.message.extra.cost > 0

\* the cost calculator raised or yielded a non-positive cost
CostFailed == q.calc.raises \/ q.calc.value <= 0

\* C10: when the cost calculator raises or yields a non-positive cost, the
\* lenient policy goes on with cost exactly 0, and the default policy raises
\* RuntimeError, returns no message and adds nothing to the process-wide
\* counter; so a message returned under the default policy has cost > 0 and no
\* returned message has a negative cost.
C10_CostPolicy ==
    config.model_class = "litellm" =>
    /\ (q.cost_calcs = 1 /\ CostFailed) =>
          IF config.model.cost_tracking = "ignore_errors"
          THEN /\ q.outcome # "RuntimeError"
               /\ q.cost_output = 0
               /\ global_cost = q.global_before
               /\ q.outcome = "returned" => q.message.extra.cost = 0
          ELSE /\ q.outcome = "RuntimeError"
               /\ pc = "query_done"
               /\ q.message = NoQuery.message
               /\ global_cost = q.global_before
    /\ (q.cost_calcs = 1 /\ ~CostFailed) =>
          /\ q.outcome # "RuntimeError"
          /\ q.cost_output = q.calc.value
          /\ global_cost = q.global_before + q.calc.value
    /\ q.outcome = "returned" =>
          /\ q.message.extra.cost >= 0
          /\ config.model.cost_tracking # "ignore_errors" => q.message.extra.cost > 0
    /\ \A i \in 1..Len(messages) :
          messages[i].extra.kind \in {"model", "debug"} =>
             /\ messages[i].extra.cost >= 0
             /\ config.model.cost_tracking # "ignore_errors" => messages[i].extra.cost > 0

\* the lenient policy returning a message with cost 0 after the calculator
\* yielded a negative cost
C10_Witness ==
    /\ pc = "query_done"
    /\ config.model.cost_tracking = "ignore_errors"
    /\ q.outcome = "returned"
    /\ ~q.calc.raises
    /\ q.calc.value < 0
    /\ q.message.extra.cost = 0

\* the failures the retry policy must not retry: unsupported parameters,
\* not-found, permission-denied, context-window-exceeded and authentication
\* errors (one stands for all), and the user's interrupt
NonRetryable == {"abort", "KeyboardInterrupt"}

\* the backend calls of the query in progress that failed
FailedCalls == {i \in 1..Len(q.calls) : ~q.calls[i].ok}

\* C11: a backend call failing with a designated non-retryable failure is the
\* last backend call of the query, and query() raises that failure, which the
\* agent's query() passes on; any other failure is followed by a new attempt
\* until MaxAttempts attempts have failed, when it is raised; no query makes
\* more than MaxAttempts attempts.
C11_AbortNoRetry ==
    /\ [](/\ q.attempt <= MaxAttempts
          /\ Cardinality(FailedCalls) <= MaxAttempts
          /\ q.failure \in NonRetryable =>
                /\ pc = "query_done"
                /\ q.outcome = Raises(q.failure)
                /\ ~Last(q.calls).ok
                /\ \A i \in FailedCalls : q.calls[i].attempt < q.attempt \/ i = Len(q.calls)
          /\ q.failure = "transient" =>
                IF q.outcome = "BackendError"
                THEN /\ pc = "query_done"
                     /\ q.attempt = MaxAttempts
                     /\ Cardinality(FailedCalls) = MaxAttempts
                     /\ ~Last(q.calls).ok
                ELSE q.attempt > 1
          /\ (q.attempt > 0 /\ q.outcome = "none") =>
                q.attempt = Cardinality(FailedCalls) + 1)
    /\ [][(pc \in {"backend", "fallback"} /\ Len(q'.calls) > Len(q.calls)
              /\ ~Last(q'.calls).ok /\ q'.failure \notin NonRetryable) =>
             IF q.attempt < MaxAttempts
             THEN /\ pc' = "backend"
                  /\ q'.attempt = q.attempt + 1
                  /\ q'.outcome = "none"
             ELSE /\ pc' = "query_done"
                  /\ q'.outcome = "BackendError"]_vars
    /\ [][(pc = "query_done" /\ q.failure # "none" /\ q.outcome # "none"
              /\ q.outcome \notin {"returned", "FormatError", "RuntimeError"}) =>
             /\ pc' = "except"
             /\ exc'.type = q.outcome
             /\ messages' = messages
             /\ q' = NoQuery]_vars

\* a designated failure in the second attempt of a query, after a transient one
C11_Witness ==
    /\ pc = "query_done"
    /\ q.failure = "abort"
    /\ q.outcome = "AuthenticationError"
    /\ q.attempt = 2
    /\ Len(q.calls) = 2

\* C13 (as claimed): whenever parsing the actions of a response fails, query()
\* returns no message and raises FormatError carrying first an assistant message
\* with the response's content and tool calls, flagged as a parse error and
\* holding that call's cost, then the parser's messages in their order.
C13_FormatErrorCarriesDebug ==
    (pc = "query_done" /\ q.parsed > 0 /\ ~_parse_actions(q.response.tools).ok) =>
    /\ q.outcome = "FormatError"
    /\ q.message = NoQuery.message
    /\ Len(q.raised) >= 1
    /\ q.raised[1].role = "assistant"
    /\ q.raised[1].content = "reply"
    /\ q.raised[1].tool_calls = q.response.tools
    /\ q.raised[1].extra.parse_error
    /\ q.raised[1].extra.cost = q.cost_output
    /\ Tail(q.raised) =
          << Message("user", _parse_actions(q.response.tools).error, "none", NoExtra) >>

----
(* Properties of the history sent upstream and of the live file *)

\* the keys of a history message that are bookkeeping of the agent and the client
BookkeepingKeys == {"extra", "context_left_percent"}

\* C12 (as claimed): no message handed to the backend carries an "extra" or a
\* "context_left_percent" key.
C12_NoBookkeepingSent ==
    \A i \in 1..Len(sent) : DOMAIN sent[i] \cap BookkeepingKeys = {}

\* C20 (as claimed): with a destination set, the live file holds one line per
\* message of a prefix of the run's history, in history order.
C20_LivePrefix ==
    _live_trajectory_path =>
       /\ Len(live) <= Len(messages)
       /\ \A i \in 1..Len(live) : live[i] = JsonLine(messages[i])

----
(* Properties of the stream reconstruction *)

\* the fragments consumed so far
Consumed == SubSeq(stream_state.stream, 1, stream_state.next - 1)

\* a fragment whose delta the loop body reads
HasDelta(chunk) == ~chunk.none /\ chunk.choice.present /\ chunk.choice.has_delta

RECURSIVE DeltasOf(_)
\* the tool-call deltas of the given fragments, in arrival order
DeltasOf(chunks) ==
    IF chunks = <<>> THEN <<>>
    ELSE (IF HasDelta(Head(chunks)) THEN Head(chunks).choice.tool_calls ELSE <<>>)
         \o DeltasOf(Tail(chunks))

RECURSIVE ArgumentsOf(_, _)
\* the argument deltas for one index, concatenated in arrival order
ArgumentsOf(deltas, index) ==
    IF deltas = <<>> THEN <<>>
    ELSE (IF Head(deltas).index = index THEN Head(deltas).function.arguments ELSE <<>>)
         \o ArgumentsOf(Tail(deltas), index)

\* the indices for which a delta arrived
IndicesOf(deltas) == {deltas[k].index : k \in 1..Len(deltas)}

\* the place of an index among the indices in ascending order
Rank(indices, index) == Cardinality({j \in indices : j <= index})

\* C14: for every index the accumulated arguments are the concatenation, in
\* arrival order, of all argument deltas seen for that index, and the response
\* holds one tool call per index, in ascending order of the indices.
C14_ArgumentsConcatenated ==
    stream_state.pc # "none" =>
    LET deltas == DeltasOf(Consumed)
        indices == IndicesOf(deltas)
    IN  /\ DOMAIN stream_state.tool_calls_by_index = indices
        /\ \A i \in indices :
              stream_state.tool_calls_by_index[i].function.arguments
                 = ArgumentsOf(deltas, i)
        /\ stream_state.pc = "done" =>
              /\ Len(stream_state.response.tool_calls) = Cardinality(indices)
              /\ \A i \in indices :
                    stream_state.response.tool_calls[Rank(indices, i)].function.arguments
                       = ArgumentsOf(deltas, i)

\* index 1 arrived before index 0, whose arguments came in several deltas
C14_Witness ==
    /\ stream_state.pc = "done"
    /\ Len(stream_state.response.tool_calls) = 2
    /\ DeltasOf(Consumed)[1].index = 1
    /\ Len(stream_state.response.tool_calls[1].function.arguments) >= 2
    /\ stream_state.response.tool_calls[2].function.arguments = <<"z">>

RECURSIVE FirstValue(_)
\* the first value of a sequence that is not empty, or the empty value
FirstValue(values) ==
    IF values = <<>> THEN ""
    ELSE IF Head(values) # "" THEN Head(values) ELSE FirstValue(Tail(values))

\* the deltas that arrived for one index, in arrival order
DeltasAt(deltas, index) == SelectSeq(deltas, LAMBDA d : d.index = index)

\* C15 (as claimed): for every index the reconstructed id, type and function
\* name are those of the first delta of that index that carried one; a later
\* delta with another id, type or name does not change them.
C15_FirstIdentityKept ==
    stream_state.pc = "done" =>
    LET deltas == DeltasOf(Consumed)
        indices == IndicesOf(deltas)
    IN  \A i \in indices :
          LET at == DeltasAt(deltas, i)
              call == stream_state.response.tool_calls[Rank(indices, i)]
          IN  /\ call.id = FirstValue([k \in 1..Len(at) |-> at[k].id])
              /\ call.type = FirstValue([k \in 1..Len(at) |-> at[k].type])
              /\ call.function.name
                    = FirstValue([k \in 1..Len(at) |-> at[k].function.name])

RECURSIVE LastValue(_)
\* the last value of a sequence that is neither missing nor null, or null
LastValue(values) ==
    IF values = <<>> THEN "null"
    ELSE IF Last(values) \notin {"absent", "null"} THEN Last(values)
         ELSE LastValue(SubSeq(values, 1, Len(values) - 1))

\* the consumed fragments that are not None, and those with a choice
RealChunks == SelectSeq(Consumed, LAMBDA c : ~c.none)
ChoiceChunks == SelectSeq(RealChunks, LAMBDA c : c.choice.present)
UsageChunks == SelectSeq(RealChunks, LAMBDA c : c.usage.present)

\* C16 (as claimed): the reconstructed usage, finish_reason, model, id and
\* created are the latest non-null values seen among the consumed fragments.
C16_LatestNonNull ==
    stream_state.pc = "done" =>
    /\ stream_state.response.usage
          = IF UsageChunks = <<>> THEN NoUsage ELSE Last(UsageChunks).usage
    /\ stream_state.response.finish_reason
          = LastValue([k \in 1..Len(ChoiceChunks) |-> ChoiceChunks[k].choice.finish_reason])
    /\ stream_state.response.model
          = LastValue([k \in 1..Len(RealChunks) |-> RealChunks[k].model])
    /\ stream_state.response.id
          = LastValue([k \in 1..Len(RealChunks) |-> RealChunks[k].id])
    /\ stream_state.response.created
          = LastValue([k \in 1..Len(RealChunks) |-> RealChunks[k].created])

RECURSIVE ContentOf(_)
\* the content deltas of a sequence of fragments, concatenated in arrival order
ContentOf(chunks) ==
    IF chunks = <<>> THEN <<>>
    ELSE (IF HasDelta(Head(chunks)) THEN Head(chunks).choice.content ELSE <<>>)
         \o ContentOf(Tail(chunks))

\* the guard's settings let it act
GuardActive ==
    /\ config.model.stream_guard_enabled
    /\ config.model.stream_guard_window > 0
    /\ config.model.stream_guard_tag_threshold > 0

\* the offset of the trailing window in a text, and the closing-tag matches of
\* the window
WindowOffset(text) == Len(text) - Len(Window(text, config.model.stream_guard_window))
WindowMatches(text) == finditer(Window(text, config.model.stream_guard_window), 1)

\* after the guard's break the loop takes no further fragment and the content
\* stays as truncated
NoFurtherFragment ==
    [][stream_state.broke =>
          /\ stream_state'.next = stream_state.next
          /\ stream_state'.content_text = stream_state.content_text]_vars

\* C17 (as claimed): when the guard triggers, the accumulated content is cut
\* just past the threshold-th match of the window, and no further fragment is
\* consumed.
C17_TruncatedPastMatch ==
    /\ [](stream_state.broke =>
            LET full == ContentOf(Consumed)
                threshold == config.model.stream_guard_tag_threshold
            IN  /\ Len(WindowMatches(full)) >= threshold
                /\ stream_state.content_text
                      = SubSeq(full, 1, WindowOffset(full) + WindowMatches(full)[threshold].end))
    /\ NoFurtherFragment

\* C17 (amended): when the guard triggers, the accumulated content is cut at
\* the offset where the threshold-th match of the window starts, and no further
\* fragment is consumed.
C17_TruncatedAtMatchStart ==
    /\ [](stream_state.broke =>
            LET full == ContentOf(Consumed)
                threshold == config.model.stream_guard_tag_threshold
            IN  /\ Len(WindowMatches(full)) >= threshold
                /\ stream_state.content_text
                      = SubSeq(full, 1, WindowOffset(full) + WindowMatches(full)[threshold].start))
    /\ NoFurtherFragment

\* the guard has triggered while a fragment of the stream was still to come,
\* and the response was built from the truncated content
C17_Witness ==
    /\ stream_state.pc = "done"
    /\ stream_state.broke
    /\ stream_state.next <= Len(stream_state.stream)
    /\ stream_state.response.content.text # ContentOf(Consumed)
    /\ WindowOffset(ContentOf(Consumed)) > 0

\* the stream of the single fragment "</a></a>" under window 200, threshold 2
TwoTagsInOneFragment ==
    /\ config.model.stream_guard_enabled
    /\ config.model.stream_guard_window = 200
    /\ config.model.stream_guard_tag_threshold = 2
    /\ Len(stream_state.stream) = 1
    /\ HasDelta(stream_state.stream[1])
    /\ stream_state.stream[1].choice.content = ClosingTag \o ClosingTag

\* C18: with the guard enabled, the guard breaks the loop exactly when a
\* content delta brings the window to threshold closing tags; the content kept
\* is the accumulated text up to immediately before the threshold-th closing
\* tag of the window, so that threshold-1 of the window's tags remain, and one
\* warning is logged ("</a></a>" in one fragment under window 200, threshold 2
\* yields "</a>").
C18_KeepsThresholdMinusOneTags ==
    LET full == ContentOf(Consumed)
        kept == stream_state.content_text
        threshold == config.model.stream_guard_tag_threshold
    IN  /\ stream_state.broke =>
              /\ GuardActive
              /\ Len(kept) >= WindowOffset(full) /\ Len(kept) < Len(full)
              /\ kept = SubSeq(full, 1, Len(kept))
              /\ Len(finditer(SubSeq(kept, WindowOffset(full) + 1, Len(kept)), 1))
                    = threshold - 1
              /\ MatchEnd(full, Len(kept) + 1) # 0
              /\ stream_state.warnings = 1
        /\ (GuardActive /\ ~stream_state.broke) =>
              /\ Len(WindowMatches(kept)) < threshold
              /\ kept = full
              /\ stream_state.warnings = 0
        /\ (TwoTagsInOneFragment /\ stream_state.pc = "done") =>
              /\ ~stream_state.response.content.none
              /\ stream_state.response.content.text = ClosingTag
              /\ stream_state.warnings = 1

\* the guard has cut a text holding other characters before and between its
\* closing tags, with threshold above one
C18_Witness ==
    /\ stream_state.pc = "done"
    /\ stream_state.broke
    /\ config.model.stream_guard_tag_threshold >= 2
    /\ stream_state.content_text # <<>>
    /\ Head(stream_state.content_text) # "<"
    /\ stream_state.next > 2

\* after every content delta of the stream the window holds fewer than
\* threshold closing tags
NeverTriggers ==
    \A k \in 1..Len(stream_state.stream) :
       (HasDelta(stream_state.stream[k]) /\ stream_state.stream[k].choice.content # <<>>) =>
          Len(WindowMatches(ContentOf(SubSeq(stream_state.stream, 1, k))))
             < config.model.stream_guard_tag_threshold

\* C19: if the guard is disabled, or its window or threshold is not positive,
\* or the window never holds threshold closing tags after a content delta, then
\* every fragment is consumed and the reconstructed content is the
\* concatenation of all content deltas in arrival order (None when that is
\* empty), with no warning.
C19_NoTruncation ==
    (stream_state.pc = "done" /\ (~GuardActive \/ NeverTriggers)) =>
       /\ stream_state.next = Len(stream_state.stream) + 1
       /\ ~stream_state.broke
       /\ stream_state.warnings = 0
       /\ stream_state.response.content.text = ContentOf(stream_state.stream)
       /\ stream_state.response.content.none = (ContentOf(stream_state.stream) = <<>>)

\* a disabled guard has let through a content of several fragments with
\* threshold closing tags in its window
C19_Witness ==
    /\ stream_state.pc = "done"
    /\ ~config.model.stream_guard_enabled
    /\ config.model.stream_guard_window > 0
    /\ Len(WindowMatches(stream_state.response.content.text))
          >= config.model.stream_guard_tag_threshold
    /\ stream_state.next = Len(stream_state.stream) + 1
    /\ Len(SelectSeq(stream_state.stream,
                      LAMBDA c : HasDelta(c) /\ c.choice.content # <<>>)) >= 2

----
(* Properties of the live file and of the callers *)

\* the number of messages the step at hand hands to add_messages
Appended ==
    IF pc \in {"idle", "returned", "raised"}
    THEN (IF pc' = "step" THEN Len(messages') ELSE 0)
    ELSE Len(messages') - Len(messages)

\* C21: a failure to initialise the live file or to append to it is logged as
\* a warning and goes no further: an append that leaves lines out logs one
\* warning; the step that logs a warning still sets the destination or extends
\* the history by all its messages, puts no exception in flight, and leaves the
\* run where a successful step leaves it.
C21_LiveFailureSwallowed ==
    [][/\ (_live_trajectory_path /\ Appended > 0 /\ Len(live') - Len(live) < Appended)
            => warnings' = warnings + 1
       /\ warnings' # warnings =>
            /\ warnings' = warnings + 1
            /\ exc' \in {exc, NoException}
            /\ result' \in {result, NotReturned}
            /\ \/ /\ instance.pc = "set_live"
                  /\ instance'.pc = "run"
                  /\ _live_trajectory_path'
                  /\ UNCHANGED <<pc, messages>>
               \/ /\ Appended > 0
                  /\ pc' \in {"step", "execute", "finally"}
                  /\ UNCHANGED instance]_vars

\* a run has returned its submission although the file of an earlier attempt
\* could not be removed and an append failed
C21_Witness ==
    /\ pc = "returned"
    /\ result.exit_status = "Submitted"
    /\ warnings >= 2
    /\ live # <<>>
    /\ live[1] = StaleLine
    /\ Len(live) < Len(messages)


RECURSIVE IsSubsequence(_, _)
\* whether the lines are lines of the given ones, each taken once, in order
IsSubsequence(lines, of) ==
    IF lines = <<>> THEN TRUE
    ELSE IF of = <<>> THEN FALSE
    ELSE IF Head(lines) = Head(of) THEN IsSubsequence(Tail(lines), Tail(of))
    ELSE IsSubsequence(lines, Tail(of))

\* C22 (as claimed): once a run has started on an agent with a live-log
\* destination, the live file holds only lines for messages of that run: what
\* was at the destination before the run started is gone, for a second run()
\* on the same agent too.
C22_OnlyLinesOfThisRun ==
    (_live_trajectory_path /\ runs > 0) =>
       IsSubsequence(live, [i \in 1..Len(messages) |-> JsonLine(messages[i])])


\* process_instance has run its finally clause to the end
InstanceOver ==
    /\ instance.caller = "process_instance"
    /\ instance.pc \in {"done", "escaped"}

\* C23: in process_instance, once the run has started, the live file is removed
\* only when the final trajectory has been saved; when process_instance is
\* over with an agent constructed, the final trajectory (with the exit status
\* and submission of this attempt) exists and the live file does not.
C23_LiveRemovedAfterSave ==
    /\ [][(instance.caller = "process_instance" /\ runs > 0
           /\ live_exists /\ ~live_exists')
             => (traj.exists /\ traj' = traj)]_vars
    /\ []((InstanceOver /\ instance.agent) =>
            /\ traj.exists
            /\ traj.exit_status = instance.exit_status
            /\ traj.submission = instance.result
            /\ ~live_exists
            /\ live = <<>>)

\* process_instance is over after a run that wrote its live file and submitted
C23_Witness ==
    /\ InstanceOver
    /\ instance.agent
    /\ instance.exit_status = "Submitted"
    /\ traj.exists
    /\ ~live_exists
    /\ Len(messages) > 2
    /\ warnings = 0


\* C24 (as claimed): when a caller that set a live-log destination on its agent
\* (process_instance, main) has returned, no live file remains.
C24_NoLiveFileAfterCaller ==
    (instance.caller \in {"process_instance", "main"} /\ instance.agent
     /\ instance.pc = "done")
       => (~live_exists /\ live = <<>>)


\* process_instance is over and its agent's run() was left by an exception
RunRaised ==
    /\ InstanceOver
    /\ runs > 0
    /\ pc = "raised"

\* what process_instance leaves behind for an exception of the given type name
RecordedAs(type) ==
    /\ instance.pc = "done"
    /\ instance.exit_status = type
    /\ instance.result = ""
    /\ traj = [exists |-> TRUE, exit_status |-> type, submission |-> "",
               traceback |-> TRUE]
    /\ preds = [exists |-> TRUE, result |-> ""]
    /\ Last(progress) = [event |-> "end", status |-> type]

\* C25 (as claimed): an exception that leaves the agent's run() inside
\* process_instance does not leave process_instance; its type name is the exit
\* status, the submission is empty, the traceback is in the final trajectory,
\* the instance is in the prediction ledger and on_instance_end got the status.
C25_EveryExceptionRecorded ==
    RunRaised => RecordedAs(exc.type)

\* C25 (amended): the same for an exception that is an Exception; a
\* BaseException that is none (KeyboardInterrupt) is not meant.
C25_ExceptionRecorded ==
    (RunRaised /\ exc.type \notin BaseExceptions) => RecordedAs(exc.type)

\* process_instance is over after the backend's error left run()
C25_Witness ==
    /\ RunRaised
    /\ exc.type = "BackendError"
    /\ instance.pc = "done"
    /\ traj.exists
    /\ traj.traceback


----
(* Properties of the context-window tracking *)

\* round(n / d) for d > 0 as Python rounds: to the nearest whole number, a
\* tie to the even one
RoundHalfEven(n, d) ==
    LET low == IF n >= 0 THEN n \div d ELSE 0 - (((0 - n) + d - 1) \div d)
        rest == n - low * d
    IN  IF 2 * rest < d THEN low
        ELSE IF 2 * rest > d THEN low + 1
        ELSE IF low % 2 = 0 THEN low ELSE low + 1

\* clamp(0, 100, round(100 * (1 - prompt_tokens / max)))
RoundedPercent(prompt_tokens, max) ==
    LET left == RoundHalfEven(100 * (max - prompt_tokens), max)
    IN  IF left < 0 THEN 0 ELSE IF left > 100 THEN 100 ELSE left

\* query() takes in a returned response with a usage reading while the budget
\* is known
ReadingTaken ==
    /\ pc = "query_done"
    /\ q.outcome = "returned"
    /\ q.response.usage.present
    /\ context_window_max # 0
    /\ pc' = "execute"

\* C26: after a response with a prompt-token count and a known budget,
\* context_left_percent is clamp(0, 100, round(100 * (1 - prompt_tokens / max)))
\* on the message and on the agent alike; 6400 of 128000 gives 95.
C26_RoundedPercentAttached ==
    [][ReadingTaken =>
          LET want == RoundedPercent(q.response.usage.prompt_tokens, context_window_max)
          IN  /\ context_left_percent' = want
              /\ "context_left_percent" \in DOMAIN Last(messages')
              /\ Last(messages').context_left_percent = want
              /\ _context_left_percent(6400, 128000) = 95]_vars


\* a percentage of the context window, or the unset one
PercentOrUnset(percent) == percent = -1 \/ percent \in 0..100

\* the readings attached to the messages of the history
PercentsOf(history) ==
    { history[i].context_left_percent :
        i \in { j \in 1..Len(history) : "context_left_percent" \in DOMAIN history[j] } }

\* C27: context_left_percent is unset or a whole number in 0..100 in every
\* state, also after prompt tokens above the budget or below zero, and it
\* follows the latest usage reading alone: a reading sets it to that reading's
\* percentage (to the whole number), every other step leaves it alone.
C27_PercentInRangeFromLatest ==
    /\ [](/\ PercentOrUnset(context_left_percent)
          /\ \A p \in PercentsOf(messages) : p \in 0..100)
    /\ [][IF ReadingTaken
          THEN LET want == RoundedPercent(q.response.usage.prompt_tokens,
                                          context_window_max)
               IN  context_left_percent' \in {want - 1, want, want + 1}
          ELSE context_left_percent' = context_left_percent]_vars

\* a reading below zero (all of the window left) after one above the budget
\* (nothing left)
C27_Witness ==
    /\ context_left_percent = 100
    /\ Len(messages) > 1
    /\ "context_left_percent" \in DOMAIN Last(messages)
    /\ Last(messages).context_left_percent = 100
    /\ 0 \in PercentsOf(messages)


\* C28: the context-window map is loaded and searched at most once in a run
\* and the outcome is kept for the run, found or not: a query after the
\* run's first resolution neither loads the map again nor changes
\* context_window_max.
C28_ResolvedOncePerRun ==
    /\ [](n_loads <= 1)
    /\ [][(pc = "step" /\ pc' = "backend") =>
             /\ n_loads' = n_loads
             /\ context_window_max' = context_window_max]_vars


----
(* Properties of normalize_model_name *)

\* normalize_model_name has been applied to a name and to its own result
NormalizedTwice == normalization.calls = 2

\* C29: normalize_model_name is idempotent: for every model name x, with
\* provider prefixes, date suffixes, -preview/-beta/-latest and quantization
\* suffixes in any order, normalize(normalize(x)) = normalize(x).
C29_Idempotent ==
    NormalizedTwice => normalization.again = normalization.normalized


\* the name as normalize_model_name splits it: stripped and in lower case
Cleaned == lower(strip(normalization.model_name))

\* the text after the i-th character, with its suffixes stripped
StrippedAfter(text, i) == StripAll(SubSeq(text, i + 1, Len(text)))

\* C30 (as claimed): normalize_model_name removes the provider segment before
\* the first "/": of a name with several "/" the text after the first "/" is
\* what the suffixes are stripped from.
C30_CutAtFirstSlash ==
    (normalization.calls >= 1 /\ Slashes(Cleaned) # {}) =>
        \E i \in Slashes(Cleaned) :
            /\ \A j \in Slashes(Cleaned) : i <= j
            /\ normalization.normalized = StrippedAfter(Cleaned, i)

\* C30 (amended): normalize_model_name removes all up to the last "/": of a
\* name with several "/" the text after the last "/" is what the suffixes are
\* stripped from.
C30_CutAtLastSlash ==
    (normalization.calls >= 1 /\ Slashes(Cleaned) # {}) =>
        \E i \in Slashes(Cleaned) :
            /\ \A j \in Slashes(Cleaned) : i >= j
            /\ normalization.normalized = StrippedAfter(Cleaned, i)

\* a name with two provider segments and a suffix has been normalized
C30_Witness ==
    /\ normalization.calls >= 1
    /\ normalization.model_name =
           <<"o", "/", "o", "/", "a", "-", "p", "r", "e", "v", "i", "e", "w">>
    /\ normalization.normalized = <<"a">>


----
(* Properties of the run state, the limits and the spend *)

\* run() has reset the history and enters the loop
EntersRunning ==
    /\ pc \in {"idle", "returned", "raised"}
    /\ pc' = "step"

\* C35: the run state is created afresh by every run(): when the loop is
\* entered the history is the system message and the user message, and the
\* call count and the cumulative cost are zero, whatever an earlier run() on the
\* same agent did.
C35_FreshRunState ==
    [][EntersRunning => /\ messages' = <<SystemMessage, UserMessage>>
                        /\ n_calls' = 0
                        /\ cost' = 0]_vars


\* run() is under way
Running == pc \notin {"idle", "returned", "raised"}

\* model.query calls the agent has made and that are over
QueriesOver == n_returned + n_raised

\* C37: with a positive step_limit, n_calls never exceeds it, no more model
\* queries than step_limit are made, and every run() ends, whatever the model
\* answers (a FormatError for every response included).
C37_StepLimitEndsRun ==
    /\ [](/\ n_calls <= config.step_limit
          /\ QueriesOver <= config.step_limit)
    /\ (Running ~> ~Running)

\* a run ended by the step limit after every response of it was rejected
C37_Witness ==
    /\ pc \in {"returned", "raised"}
    /\ n_calls = config.step_limit
    /\ n_calls > 1
    /\ format_errors = n_calls
    /\ n_returned = 0


\* C38: in a single run, at every step boundary the agent's cumulative cost is
\* what the run has added to the process-wide cost counter: the costs of all
\* responses obtained in the run, those rejected with FormatError included.
C38_CostIsWholeSpend ==
    (runs = 1 /\ pc = "step") => cost = global_cost


\* _query_streaming is over: it returned or went on to _query_non_streaming
StreamingQueryOver == stream_state.pc \in {"returned", "_query_non_streaming"}

\* C39: when the repetition guard triggers during a streaming query, the query
\* completes with the truncated reconstructed response and makes no further
\* backend request, also when no usage block had arrived and usage inclusion
\* is on.
C39_GuardedQueryAsksOnce ==
    (StreamingQueryOver /\ stream_state.broke) =>
        /\ stream_state.pc = "returned"
        /\ stream_state.response.content.text = stream_state.content_text


----
(* Properties of the response-protocol client *)

\* the latest of the ids that is an id (not 0), or 0
LatestId(ids) ==
    LET real == { i \in 1..Len(ids) : ids[i] # 0 }
    IN  IF real = {} THEN 0 ELSE ids[CHOOSE i \in real : \A j \in real : i >= j]

\* a litellm.responses call is made by a client whose caller supplied no
\* previous_response_id
LinkedCall ==
    /\ Len(linking'.passed) = Len(linking.passed) + 1
    /\ config.model.model_kwargs.previous_response_id = 0

----
(* Properties of the context-window map *)

\* lookup_context_window has returned
LookedUp == map_call.pc = "returned"

\* the name looked up, normalized
LookedUpName == normalize_model_name(map_call.model_name)

\* the values stored under the keys that normalize to the given name
ValuesUnder(name) ==
    { map_call.context_map[i].value :
        i \in { j \in 1..Len(map_call.context_map) :
                  normalize_model_name(map_call.context_map[j].key) = name } }

\* the normalized keys, longer than the given length, that the name looked up
\* starts with
PrefixKeys(longer_than) ==
    { key \in NormalizedKeys(map_call.context_map) :
        startswith(LookedUpName, key) /\ Len(key) > longer_than }

\* the outcome of the lookup by its rules, with the prefixes longer than given:
\* exact match on the normalized name, else the longest prefix, else no match
ByTheRules(longer_than) ==
    IF ValuesUnder(LookedUpName) # {}
    THEN map_call.returned \in ValuesUnder(LookedUpName)
    ELSE IF PrefixKeys(longer_than) # {}
    THEN \E key \in PrefixKeys(longer_than) :
            /\ \A other \in PrefixKeys(longer_than) : Len(key) >= Len(other)
            /\ map_call.returned \in ValuesUnder(key)
    ELSE map_call.returned = NoMatch

\* the test's lookup: "openai/gpt-4o-2024-08-06" in {"gpt-4o": 128000}
TestLookup ==
    lookup_context_window(
        <<"o", "p", "e", "n", "a", "i", "/", "g", "p", "t", "-", "4", "o",
          "-", "2", "0", "2", "4", "-", "0", "8", "-", "0", "6">>,
        << [key |-> <<"g", "p", "t", "-", "4", "o">>, value |-> 128000] >>)

\* C31 (as claimed): lookup returns the value under the key whose normalized
\* form is the normalized name; else the value of the longest normalized key
\* that is a prefix of the normalized name; else no match, which no stored
\* value equals.
C31_ExactThenLongestPrefix ==
    LookedUp =>
        /\ ByTheRules(-1)
        /\ \A i \in 1..Len(map_call.context_map) :
              map_call.context_map[i].value # NoMatch
        /\ TestLookup = 128000

\* C31 (amended): the same with the longest non-empty normalized key that is a
\* prefix of the normalized name.
C31_ExactThenLongestNonEmptyPrefix ==
    LookedUp =>
        /\ ByTheRules(0)
        /\ \A i \in 1..Len(map_call.context_map) :
              map_call.context_map[i].value # NoMatch
        /\ TestLookup = 128000

\* "agg" looked up in a map with the keys "a" and "ag": the longer key's value
C31_Witness ==
    /\ LookedUp
    /\ map_call.model_name = <<"a", "g", "g">>
    /\ map_call.context_map = << [key |-> <<"a", "g">>, value |-> 2],
                                 [key |-> <<"a">>, value |-> 1] >>
    /\ map_call.returned = 2


\* the map of the lookup with its entries in the opposite iteration order
ReversedMap ==
    [ i \in 1..Len(map_call.context_map) |->
        map_call.context_map[Len(map_call.context_map) + 1 - i] ]

\* C40: if the map holds a key string-equal to the normalized name, lookup
\* returns the value under that key, also when other keys normalize to the
\* same name with other values; and the result is the same whichever order
\* the map is iterated in.
C40_ExactKeyWins ==
    LookedUp =>
        /\ \A i \in 1..Len(map_call.context_map) :
              map_call.context_map[i].key = LookedUpName =>
                  map_call.returned = map_call.context_map[i].value
        /\ lookup_context_window(map_call.model_name, ReversedMap)
              = map_call.returned


\* a value of the live file that is a positive integer
PositiveInt(value) == value.type = "int" /\ value.n > 0

\* the keys of the live file whose values are no positive integers
Offending ==
    { live_map.data[i].key :
        i \in { j \in 1..Len(live_map.data) :
                  ~PositiveInt(live_map.data[j].value) } }

\* process p has come out of a load_context_window_map() call
LoadOver(p) == map_call[p].op = "load" /\ map_call[p].pc \in {"returned", "raised"}

\* C32: load() returns a map only if every entry of the live store has a
\* positive integer for its value; with any value that is non-numeric, zero or
\* negative it fails with a validation error that names an offending key, and
\* returns no partial map.
C32_LoadValidatesEveryEntry ==
    \A p \in DOMAIN map_call :
        LoadOver(p) =>
            IF Offending = {}
            THEN /\ map_call[p].pc = "returned"
                 /\ Len(map_call[p].context_map) = Len(live_map.data)
            ELSE /\ map_call[p].pc = "raised"
                 /\ map_call[p].raised = "ValueError"
                 /\ Yaml("str", 0, map_call[p].key) \in Offending
                 /\ map_call[p].context_map = <<>>


\* C36: from a live store of positive integers (or none yet, seeded on first
\* use), after any update(name, tokens) calls and budget resolutions the live
\* store has a positive integer under every key, and no load fails.
C36_StoreStaysValid ==
    /\ \A i \in 1..Len(live_map.data) : PositiveInt(live_map.data[i].value)
    /\ \A p \in DOMAIN map_call : map_call[p].pc # "raised"

\* a process has opened the live file for writing, which emptied it, and has
\* not written to it yet
MidWrite == \E writer \in DOMAIN map_call : map_call[writer].pc \in {"copying", "writing"}

\* process p reads the live file in this step
Reads(p) == map_call[p].pc = "read_text" /\ map_call'[p].pc # "read_text"

\* C33: with several runs loading, seeding and updating the store at once, no
\* load reads the store file while it is partially written (empty or cut
\* short).
C33_NoPartialRead ==
    [][\A p \in DOMAIN map_call : Reads(p) => ~MidWrite]_vars

====
